---- MODULE Spec2Model ----
(***************************************************************************)
(* Model of the Modbus TCP simulator: the hand-written connection handler  *)
(* (src/server.py, src/modbus_tcp.py, src/device.py, src/faults.py) and    *)
(* the register banks of the pymodbus-based devices                        *)
(* (src/TCP/tcp_servers/tcp_context.py, src/TCP/modbus_tcp.py).            *)
(* Bytes are naturals 0..255, byte strings are sequences of bytes.         *)
(***************************************************************************)
EXTENDS Integers, Sequences, FiniteSets, TLC

\* ------------------------------------------------------------------------
\* Bounds of the model
\* ------------------------------------------------------------------------
MaxFrames == 2
MaxRawLen == 9
MaxBg == 1
MaxFramesOther == 1
MaxFaultFrames == 2
MaxTicks == 3
MaxPmsTicks == 1
MaxInbound == 2
CodecMargin == 500

\* ------------------------------------------------------------------------
\* Program constants
\* ------------------------------------------------------------------------
HoldingSize == 200
RecvSize == 4096
MbapHeaderLen == 6
MinFrameLen == 8
MinPduLen == 5
ExcIllegalFunction == 1
ExcIllegalAddress == 2

Conns == {"c1", "c2"}

\* ------------------------------------------------------------------------
\* Byte helpers (struct.pack / struct.unpack / bytes([...]) / bit masks)
\* ------------------------------------------------------------------------
Min(a, b) == IF a < b THEN a ELSE b
Max(a, b) == IF a > b THEN a ELSE b

\* struct.unpack(">H", two bytes)
UnpackH(hi, lo) == hi * 256 + lo

\* struct.pack(">H", v) for v in 0..65535
PackH(v) == <<v \div 256, v % 256>>

\* v & 0xFFFF
Mask16(v) == v % 65536

\* b | 0x80 for a byte b
Or80(b) == IF b >= 128 THEN b ELSE b + 128

\* bytes([...]) raises ValueError unless every item is in range(0, 256)
BytesOk(items) == \A i \in 1..Len(items) : items[i] >= 0 /\ items[i] <= 255

Slice(s, from, to) == IF from > to THEN <<>> ELSE SubSeq(s, from, to)

RECURSIVE Concat(_)
Concat(ss) == IF ss = <<>> THEN <<>> ELSE Head(ss) \o Concat(Tail(ss))

\* b"".join(struct.pack(">H", v & 0xFFFF) for v in values)
PackWords(values) ==
    [i \in 1..(2 * Len(values)) |->
        LET v == Mask16(values[(i + 1) \div 2])
        IN  IF i % 2 = 1 THEN v \div 256 ELSE v % 256]

\* ------------------------------------------------------------------------
\* src/modbus_tcp.py
\* ------------------------------------------------------------------------
NoRequest ==
    [ok |-> FALSE, transaction_id |-> 0, protocol_id |-> 0, unit_id |-> 0,
     function_code |-> 0, address |-> 0, value_or_count |-> 0]

ModbusRequest(tid, pid, uid, fc, addr, voc) ==
    [ok |-> TRUE, transaction_id |-> tid, protocol_id |-> pid, unit_id |-> uid,
     function_code |-> fc, address |-> addr, value_or_count |-> voc]

\* frame_from_stream_buffer reading the length field little-endian
frame_from_stream_buffer_LittleEndian(b) ==
    IF Len(b) < MbapHeaderLen
    THEN [ok |-> FALSE, frame |-> <<>>, rest |-> b]
    ELSE LET length == UnpackH(b[6], b[5])
             total  == MbapHeaderLen + length
         IN  IF Len(b) < total
             THEN [ok |-> FALSE, frame |-> <<>>, rest |-> b]
             ELSE [ok |-> TRUE, frame |-> Slice(b, 1, total),
                   rest |-> Slice(b, total + 1, Len(b))]

\* Returns (frame, rest); frame None is ok = FALSE with an empty frame.
frame_from_stream_buffer(b) ==
    IF Len(b) < MbapHeaderLen
    THEN [ok |-> FALSE, frame |-> <<>>, rest |-> b]
    ELSE LET length == UnpackH(b[5], b[6])
             total  == MbapHeaderLen + length
         IN  IF Len(b) < total
             THEN [ok |-> FALSE, frame |-> <<>>, rest |-> b]
             ELSE [ok |-> TRUE, frame |-> Slice(b, 1, total),
                   rest |-> Slice(b, total + 1, Len(b))]

\* parse_request_pdu without the protocol id check
parse_request_pdu_NoPidCheck(frame) ==
    IF Len(frame) < MinFrameLen THEN NoRequest
    ELSE LET tid == UnpackH(frame[1], frame[2])
             pid == UnpackH(frame[3], frame[4])
             pdu == Slice(frame, 8, Len(frame))
         IN  IF Len(pdu) < MinPduLen THEN NoRequest
             ELSE ModbusRequest(tid, pid, frame[7], pdu[1],
                                UnpackH(pdu[2], pdu[3]), UnpackH(pdu[4], pdu[5]))

\* Raises ValueError (ok = FALSE) on a malformed frame.
parse_request_pdu(frame) ==
    IF Len(frame) < MinFrameLen THEN NoRequest
    ELSE LET tid == UnpackH(frame[1], frame[2])
             pid == UnpackH(frame[3], frame[4])
             pdu == Slice(frame, 8, Len(frame))
         IN  IF pid # 0 THEN NoRequest
             ELSE IF Len(pdu) < MinPduLen THEN NoRequest
             ELSE ModbusRequest(tid, pid, frame[7], pdu[1],
                                UnpackH(pdu[2], pdu[3]), UnpackH(pdu[4], pdu[5]))

\* MbapWrap with length = len(pdu)
MbapWrap_PduLength(req, pdu) ==
    PackH(req.transaction_id) \o PackH(0) \o PackH(Len(pdu))
        \o <<req.unit_id>> \o pdu

\* struct.pack(">HHH", tid, 0, length) + bytes([unit_id]) + pdu
MbapWrap(req, pdu) ==
    PackH(req.transaction_id) \o PackH(0) \o PackH(1 + Len(pdu))
        \o <<req.unit_id>> \o pdu

\* build_response_adu with byte_count = len(values)
build_response_adu_ByteCount(req, values) ==
    IF req.function_code = 3
    THEN LET byte_count == Len(values)
         IN  IF ~BytesOk(<<3, byte_count>>)
             THEN [exc |-> "ValueError", adu |-> <<>>]
             ELSE [exc |-> "none",
                   adu |-> MbapWrap(req, <<3, byte_count>> \o PackWords(values))]
    ELSE IF req.function_code = 6
    THEN [exc |-> "none",
          adu |-> MbapWrap(req, <<6>> \o PackH(req.address)
                                      \o PackH(req.value_or_count))]
    ELSE [exc |-> "none", adu |-> MbapWrap(req, <<Or80(req.function_code), 1>>)]

\* Result: exc = "none" with the frame, or exc = "ValueError" when
\* bytes([3, byte_count]) is given a byte_count above 255.
build_response_adu(req, values) ==
    IF req.function_code = 3
    THEN LET byte_count == Len(values) * 2
         IN  IF ~BytesOk(<<3, byte_count>>)
             THEN [exc |-> "ValueError", adu |-> <<>>]
             ELSE [exc |-> "none",
                   adu |-> MbapWrap(req, <<3, byte_count>> \o PackWords(values))]
    ELSE IF req.function_code = 6
    THEN [exc |-> "none",
          adu |-> MbapWrap(req, <<6>> \o PackH(req.address)
                                      \o PackH(req.value_or_count))]
    ELSE [exc |-> "none", adu |-> MbapWrap(req, <<Or80(req.function_code), 1>>)]

\* build_exception_adu that echoes the function code without the 0x80 bit
build_exception_adu_NoHighBit(req, exc_code) ==
    MbapWrap(req, <<req.function_code, exc_code % 256>>)

build_exception_adu(req, exc_code) ==
    MbapWrap(req, <<Or80(req.function_code), exc_code % 256>>)

\* ------------------------------------------------------------------------
\* src/device.py : DeviceModel (holding is a function on 0..size-1)
\* ------------------------------------------------------------------------
HoldingInit == [a \in 0..(HoldingSize - 1) |-> 0]

BankLen(h) == Cardinality(DOMAIN h)

\* _check_range without the "count <= 0" test
check_range_raises_NoCountTest(h, address, count) ==
    \/ address < 0
    \/ address + count > BankLen(h)

\* TRUE when _check_range raises ValueError
check_range_raises(h, address, count) ==
    \/ address < 0
    \/ count <= 0
    \/ address + count > BankLen(h)

read_holding(h, address, count) ==
    IF check_range_raises(h, address, count)
    THEN [exc |-> "ValueError", values |-> <<>>]
    ELSE [exc |-> "none", values |-> [i \in 1..count |-> h[address + i - 1]]]

\* write_single masking the value to 8 bits
write_single_Mask8(h, address, value) ==
    IF check_range_raises(h, address, 1)
    THEN [exc |-> "ValueError", holding |-> h]
    ELSE [exc |-> "none", holding |-> [h EXCEPT ![address] = value % 256]]

write_single(h, address, value) ==
    IF check_range_raises(h, address, 1)
    THEN [exc |-> "ValueError", holding |-> h]
    ELSE [exc |-> "none", holding |-> [h EXCEPT ![address] = Mask16(value)]]

\* one iteration of _bg_loop without "& 0xFFFF"
bg_update_Unmasked(h) ==
    IF BankLen(h) > 1 THEN [h EXCEPT ![1] = h[1] + 1] ELSE h

\* one iteration of _bg_loop
bg_update(h) ==
    IF BankLen(h) > 1 THEN [h EXCEPT ![1] = Mask16(h[1] + 1)] ELSE h

\* ------------------------------------------------------------------------
\* src/faults.py : FaultInjector (rates in percent)
\* ------------------------------------------------------------------------
FaultInjector(dmin, dmax, cmin, cmax, drop, close) ==
    [delay_ms_min |-> dmin, delay_ms_max |-> dmax, chunk_min |-> cmin,
     chunk_max |-> cmax, drop_rate |-> drop, close_rate |-> close]

\* FAULTS of src/server.py: everything switched off
ServerFaults == FaultInjector(0, 0, 1, 1, 0, 0)

\* random.random() < rate, random() in [0, 1)
Bernoulli(rate) ==
    IF rate <= 0 THEN {FALSE} ELSE IF rate >= 100 THEN {TRUE} ELSE BOOLEAN

\* should_drop with "random.random() >= rate"
should_drop_Inverted(f) == Bernoulli(100 - f.drop_rate)

should_drop(f) == Bernoulli(f.drop_rate)

should_close(f) == Bernoulli(f.close_rate)

\* random.randint(a, b) raises ValueError when a > b
maybe_sleep_raises(f) == f.delay_ms_max > 0 /\ f.delay_ms_min > f.delay_ms_max

chunk_bytes_raises(f, data) == f.chunk_max > 1 /\ f.chunk_min > f.chunk_max

\* the cuts of the loop "for i in range(n - 1)", from iteration i at start
RECURSIVE ChunkCuts(_, _, _, _)
ChunkCuts(data, n, i, start) ==
    IF i >= n - 1
    THEN {<<Slice(data, start + 1, Len(data))>>}
    ELSE LET remaining == Len(data) - start
         IN  UNION {
               {<<Slice(data, start + 1, Min(start + cut, Len(data)))>> \o r :
                    r \in ChunkCuts(data, n, i + 1, start + cut)} :
               cut \in 1..Max(1, remaining - (n - i - 1)) }

\* NonEmptyOnly returning the chunks unfiltered
NonEmptyOnly_Unfiltered(chunks) == chunks

NonEmptyOnly(chunks) == SelectSeq(chunks, LAMBDA c : c # <<>>)

\* chunk_bytes with n = random.randint(1, chunk_max)
chunk_bytes_FromOne(f, data) ==
    IF f.chunk_max <= 1 THEN {<<data>>}
    ELSE UNION {
           IF n <= 1 \/ Len(data) <= 1 THEN {<<data>>}
           ELSE {NonEmptyOnly(cs) : cs \in ChunkCuts(data, n, 0, 0)} :
           n \in 1..f.chunk_max }

\* the set of lists chunk_bytes can return
chunk_bytes(f, data) ==
    IF f.chunk_max <= 1 THEN {<<data>>}
    ELSE UNION {
           IF n <= 1 \/ Len(data) <= 1 THEN {<<data>>}
           ELSE {NonEmptyOnly(cs) : cs \in ChunkCuts(data, n, 0, 0)} :
           n \in f.chunk_min..f.chunk_max }

\* ------------------------------------------------------------------------
\* State of the connection handler process (src/server.py)
\* ------------------------------------------------------------------------
VARIABLES
    holding,    \* device.holding
    bgSteps,    \* iterations of DeviceModel._bg_loop run so far
    FAULTS,     \* the FaultInjector of the process
    pc,         \* per connection: "recv", "drain", "closed" or "crashed"
    buf,        \* per connection: handle_client's buf
    wire,       \* per connection: bytes sent by the client, not yet received
    recvd,      \* per connection: all bytes conn.recv has returned so far
    frames,     \* per connection: all frames the drain loop has extracted
    out,        \* per connection: all conn.sendall payloads, in order
    last,       \* per connection: what the latest handler step did
    pend,       \* per connection: the latest answered write of that client
    quota       \* per connection: requests the client may still send

\* State of the pymodbus-based device servers (src/TCP)
VARIABLES
    program,    \* which entry point runs: "server", "monolith" or "processes"
    stores,     \* per device served: the datablocks d, c, h, i of its context
    reply,      \* the answer to the latest inbound request to a device
    codec       \* the latest call of a scaled codec made on its own

hvars ==
    <<holding, bgSteps, FAULTS, pc, buf, wire, recvd, frames, out, last, pend, quota>>

dvars == <<program, stores, reply, codec>>

\* State of the controller threads of the device processes
\* (src/TCP/controllers)
VARIABLES
    pcsCtl,     \* PCS controller: position in _tick, its locals, ticks done
    bmsCtl      \* BMS controller: soc_float, the latest iteration of _loop

\* State of the PMS controller thread, of the locks of the device processes
\* and of the monolith's tick loop (src/TCP/controllers/pms_controller.py,
\* src/TCP/tcp_servers/tcp_context.py, src/TCP/tick.py)
VARIABLES
    pmsCtl,     \* PMS controller: its configuration, position in _tick, locals
    lock,       \* per device: the thread that holds the RLock of its datablocks
    inb,        \* the inbound request the PMS server thread is about to serve
    bmsCall,    \* BMS controller: its outbound request in flight, if any
    tickLoop    \* tick.py: _float_state, the dt and the count of the ticks

pvars == <<pmsCtl, lock, inb, bmsCall, tickLoop>>

cvars == <<pcsCtl, bmsCtl, pvars>>

vars == <<hvars, dvars, cvars>>

NoStep ==
    [kind |-> "init", bufBefore |-> <<>>, frame |-> <<>>, rest |-> <<>>,
     req |-> NoRequest, resp |-> <<>>, dropped |-> FALSE, chunks |-> <<>>,
     closed |-> FALSE, delta |-> {}]

NoPend == [valid |-> FALSE, address |-> 0, value |-> 0, bg |-> FALSE]

\* the request frame a client puts on the wire
ClientFrame(tid, pid, uid, fc, addr, voc) ==
    PackH(tid) \o PackH(pid) \o PackH(6) \o <<uid, fc>> \o PackH(addr) \o PackH(voc)

\* try-block of handle_client: execute the request against the device.
\* Result: the new holding bank and the response frame.
Execute(h, req) ==
    IF req.function_code = 3
    THEN LET r == read_holding(h, req.address, req.value_or_count)
         IN  IF r.exc = "ValueError"
             THEN [holding |-> h, resp |-> build_exception_adu(req, ExcIllegalAddress)]
             ELSE LET b == build_response_adu(req, r.values)
                  IN  IF b.exc = "ValueError"
                      THEN [holding |-> h,
                            resp |-> build_exception_adu(req, ExcIllegalAddress)]
                      ELSE [holding |-> h, resp |-> b.adu]
    ELSE IF req.function_code = 6
    THEN LET w == write_single(h, req.address, req.value_or_count)
         IN  IF w.exc = "ValueError"
             THEN [holding |-> h, resp |-> build_exception_adu(req, ExcIllegalAddress)]
             ELSE [holding |-> w.holding, resp |-> build_response_adu(req, <<>>).adu]
    ELSE [holding |-> h, resp |-> build_exception_adu(req, ExcIllegalFunction)]

Changed(h1, h2) == {a \in DOMAIN h1 : h1[a] # h2[a]}

\* bookkeeping of the latest answered write per client
PendAfter(c, req, h1, h2, answered) ==
    LET wrote == req.function_code = 6 /\ ~check_range_raises(h1, req.address, 1)
    IN  [d \in Conns |->
            IF ~wrote THEN pend[d]
            ELSE IF d = c /\ answered
                 THEN [valid |-> TRUE, address |-> req.address,
                       value |-> req.value_or_count, bg |-> FALSE]
            ELSE IF pend[d].valid /\ pend[d].address = req.address THEN NoPend
            ELSE pend[d]]

\* Recv with "buf = data" in place of "buf += data"
Recv_Overwrite(c, k) ==
    /\ pc[c] = "recv"
    /\ k >= 1 /\ k <= Min(Len(wire[c]), RecvSize)
    /\ LET data == Slice(wire[c], 1, k)
       IN  /\ buf' = [buf EXCEPT ![c] = data]
           /\ recvd' = [recvd EXCEPT ![c] = recvd[c] \o data]
           /\ wire' = [wire EXCEPT ![c] = Slice(wire[c], k + 1, Len(wire[c]))]
           /\ last' = [last EXCEPT ![c] =
                          [NoStep EXCEPT !.kind = "recv", !.bufBefore = buf[c],
                                         !.rest = data]]
    /\ pc' = [pc EXCEPT ![c] = "drain"]
    /\ UNCHANGED <<holding, bgSteps, FAULTS, frames, out, pend, quota>>

\* data = conn.recv(4096) returning k bytes; buf += data
Recv(c, k) ==
    /\ pc[c] = "recv"
    /\ k >= 1 /\ k <= Min(Len(wire[c]), RecvSize)
    /\ LET data == Slice(wire[c], 1, k)
       IN  /\ buf' = [buf EXCEPT ![c] = buf[c] \o data]
           /\ recvd' = [recvd EXCEPT ![c] = recvd[c] \o data]
           /\ wire' = [wire EXCEPT ![c] = Slice(wire[c], k + 1, Len(wire[c]))]
           /\ last' = [last EXCEPT ![c] =
                          [NoStep EXCEPT !.kind = "recv", !.bufBefore = buf[c],
                                         !.rest = buf[c] \o data]]
    /\ pc' = [pc EXCEPT ![c] = "drain"]
    /\ UNCHANGED <<holding, bgSteps, FAULTS, frames, out, pend, quota>>

\* RecvTimeout that resets the buffer
RecvTimeout_ClearBuf(c) ==
    /\ pc[c] = "recv"
    /\ last[c].kind # "timeout"
    /\ buf' = [buf EXCEPT ![c] = <<>>]
    /\ last' = [last EXCEPT ![c] =
                   [NoStep EXCEPT !.kind = "timeout", !.bufBefore = buf[c]]]
    /\ UNCHANGED <<holding, bgSteps, FAULTS, pc, wire, recvd, frames, out, pend, quota>>

\* conn.recv raises socket.timeout: continue (a second timeout in a row
\* changes nothing and is left to stuttering)
RecvTimeout(c) ==
    /\ pc[c] = "recv"
    /\ last[c].kind # "timeout"
    /\ last' = [last EXCEPT ![c] =
                   [NoStep EXCEPT !.kind = "timeout", !.bufBefore = buf[c],
                                  !.rest = buf[c]]]
    /\ UNCHANGED <<holding, bgSteps, FAULTS, pc, buf, wire, recvd, frames, out, pend, quota>>

\* conn.recv returns b"" (the client closed): return
RecvEof(c) ==
    /\ pc[c] = "recv"
    /\ wire[c] = <<>>
    /\ pc' = [pc EXCEPT ![c] = "closed"]
    /\ last' = [last EXCEPT ![c] =
                   [NoStep EXCEPT !.kind = "eof", !.bufBefore = buf[c],
                                  !.rest = buf[c]]]
    /\ UNCHANGED <<holding, bgSteps, FAULTS, buf, wire, recvd, frames, out, pend, quota>>

\* inner loop: frame_from_stream_buffer returns None: break
DrainBreak(c) ==
    /\ pc[c] = "drain"
    /\ LET ff == frame_from_stream_buffer(buf[c])
       IN  /\ ~ff.ok
           /\ buf' = [buf EXCEPT ![c] = ff.rest]
           /\ last' = [last EXCEPT ![c] =
                          [NoStep EXCEPT !.kind = "nofrm", !.bufBefore = buf[c],
                                         !.rest = ff.rest]]
    /\ pc' = [pc EXCEPT ![c] = "recv"]
    /\ UNCHANGED <<holding, bgSteps, FAULTS, wire, recvd, frames, out, pend, quota>>

\* the sends of one response appended to those of the connection: nothing
\* when the response is dropped, else one conn.sendall per fragment
SendAll(sent, drop, chunks) == IF drop THEN sent ELSE sent \o chunks

\* AfterResponse without the return after conn.close()
AfterResponse_NoReturn(drop, close) == "drain"

\* AfterResponse that closes the connection after a drop as well
AfterResponse_CloseOnDrop(drop, close) == IF drop \/ close THEN "closed" ELSE "drain"

\* where the handler goes after a response: "continue" after a drop,
\* conn.close() and return after a forced close, else the next frame
AfterResponse(drop, close) == IF ~drop /\ close THEN "closed" ELSE "drain"

\* inner loop: one iteration that extracted a frame
ProcessFrame(c) ==
    /\ pc[c] = "drain"
    /\ LET ff  == frame_from_stream_buffer(buf[c])
           req == parse_request_pdu(ff.frame)
       IN  /\ ff.ok
           /\ buf' = [buf EXCEPT ![c] = ff.rest]
           /\ frames' = [frames EXCEPT ![c] = Append(frames[c], ff.frame)]
           /\ IF ~req.ok
              THEN \* [PARSE_ERR]: continue
                   /\ last' = [last EXCEPT ![c] =
                                  [NoStep EXCEPT !.kind = "parse_err",
                                                 !.bufBefore = buf[c],
                                                 !.frame = ff.frame,
                                                 !.rest = ff.rest]]
                   /\ UNCHANGED <<holding, out, pc, pend>>
              ELSE LET ex == Execute(holding, req)
                       step(kind, drop, chunks, close) ==
                          /\ holding' = ex.holding
                          /\ out' = [out EXCEPT ![c] = SendAll(out[c], drop, chunks)]
                          /\ pc' = [pc EXCEPT ![c] =
                                       IF kind = "raised" THEN "crashed"
                                       ELSE AfterResponse(drop, close)]
                          /\ pend' = PendAfter(c, req, holding, ex.holding,
                                               kind = "served" /\ ~drop)
                          /\ last' = [last EXCEPT ![c] =
                                [kind |-> kind, bufBefore |-> buf[c],
                                 frame |-> ff.frame, rest |-> ff.rest,
                                 req |-> req, resp |-> ex.resp,
                                 dropped |-> kind = "served" /\ drop,
                                 chunks |-> IF drop THEN <<>> ELSE chunks,
                                 closed |-> ~drop /\ close,
                                 delta |-> Changed(holding, ex.holding)]]
                   IN  IF maybe_sleep_raises(FAULTS)
                       THEN step("raised", TRUE, <<>>, FALSE)
                       ELSE \E drop \in should_drop(FAULTS) :
                              IF drop THEN step("served", TRUE, <<>>, FALSE)
                              ELSE IF chunk_bytes_raises(FAULTS, ex.resp)
                              THEN step("raised", TRUE, <<>>, FALSE)
                              ELSE \E chunks \in chunk_bytes(FAULTS, ex.resp) :
                                   \E close \in should_close(FAULTS) :
                                      step("served", FALSE, chunks, close)
    /\ UNCHANGED <<bgSteps, FAULTS, wire, recvd, quota>>

\* a client sends one more request frame (sendall: the bytes arrive together)
ClientSend(c, f) ==
    /\ pc[c] # "closed"
    /\ quota[c] > 0
    /\ quota' = [quota EXCEPT ![c] = quota[c] - 1]
    /\ wire' = [wire EXCEPT ![c] = wire[c] \o f]
    /\ UNCHANGED <<holding, bgSteps, FAULTS, pc, buf, recvd, frames, out, last, pend>>

\* one iteration of DeviceModel._bg_loop
BgStep ==
    /\ bgSteps < MaxBg
    /\ holding' = bg_update(holding)
    /\ bgSteps' = bgSteps + 1
    /\ pend' = [d \in Conns |->
                   IF pend[d].valid /\ pend[d].address \in Changed(holding, holding')
                   THEN [pend[d] EXCEPT !.bg = TRUE] ELSE pend[d]]
    /\ UNCHANGED <<FAULTS, pc, buf, wire, recvd, frames, out, last, quota>>

\* ------------------------------------------------------------------------
\* src/TCP/tcp_servers/tcp_context.py, src/TCP/modbus_tcp.py : datablocks
\* ------------------------------------------------------------------------
Devices == {"PMS", "PCS1", "PCS2", "BMS1", "BMS2"}

\* ExcCodes.ILLEGAL_ADDRESS
ILLEGAL_ADDRESS == 2

\* LockedDataBlock(lock, size, init_values): values[i] is register i
LockedDataBlock(size, init_values) ==
    [kind |-> "locked",
     values |-> [a \in 0..(size - 1) |->
                    IF a \in DOMAIN init_values THEN init_values[a] ELSE 0]]

\* RejectAllDataBlock(0, [0])
RejectAllDataBlock == [kind |-> "reject", values |-> [a \in 0..0 |-> 0]]

NoInit == [a \in {} |-> 0]

\* block_getValues with RejectAllDataBlock inheriting the sequential getValues
block_getValues_Inherited(block, address, count) ==
    IF address < 0 \/ Cardinality(DOMAIN block.values) < address + count
    THEN [exc |-> ILLEGAL_ADDRESS, values |-> <<>>]
    ELSE [exc |-> 0, values |-> [i \in 1..count |-> block.values[address + i - 1]]]

\* getValues of a datablock: the words, or an exception code
block_getValues(block, address, count) ==
    IF block.kind = "reject"
    THEN [exc |-> ILLEGAL_ADDRESS, values |-> <<>>]
    ELSE IF address < 0 \/ Cardinality(DOMAIN block.values) < address + count
    THEN [exc |-> ILLEGAL_ADDRESS, values |-> <<>>]
    ELSE [exc |-> 0, values |-> [i \in 1..count |-> block.values[address + i - 1]]]

\* setValues of a datablock: the block afterwards, or an exception code
block_setValues(block, address, values) ==
    IF block.kind = "reject"
    THEN [exc |-> ILLEGAL_ADDRESS, block |-> block]
    ELSE IF address < 0 \/ Cardinality(DOMAIN block.values) < address + Len(values)
    THEN [exc |-> ILLEGAL_ADDRESS, block |-> block]
    ELSE [exc |-> 0,
          block |-> [block EXCEPT !.values =
                        [a \in DOMAIN block.values |->
                            IF a >= address /\ a < address + Len(values)
                            THEN values[a - address + 1] ELSE block.values[a]]]]

\* decode sending a write of a single register to the input registers
decode_SingleToInput(func_code) ==
    CASE func_code \in {1, 5, 15} -> "c"
      [] func_code = 2 -> "d"
      [] func_code \in {4, 6} -> "i"
      [] func_code \in {3, 16, 22, 23} -> "h"

\* ModbusDeviceContext.decode: the table a function code works on
decode(func_code) ==
    CASE func_code \in {1, 5, 15} -> "c"
      [] func_code = 2 -> "d"
      [] func_code = 4 -> "i"
      [] func_code \in {3, 6, 16, 22, 23} -> "h"

\* ZeroBasedDeviceContext(di, co, hr, ir)
ZeroBasedDeviceContext(di, co, hr, ir) == [d |-> di, c |-> co, h |-> hr, i |-> ir]

\* ctx_getValues with the parent's "address += 1"
ctx_getValues_PlusOne(ctx, func_code, address, count) ==
    block_getValues(ctx[decode(func_code)], address + 1, count)

\* ZeroBasedDeviceContext.getValues: no +1 on the address
ctx_getValues(ctx, func_code, address, count) ==
    block_getValues(ctx[decode(func_code)], address, count)

\* ZeroBasedDeviceContext.setValues: no +1 on the address
ctx_setValues(ctx, func_code, address, values) ==
    LET r == block_setValues(ctx[decode(func_code)], address, values)
    IN  [exc |-> r.exc, ctx |-> [ctx EXCEPT ![decode(func_code)] = r.block]]

\* build_tcp_server_context(hr_size, ir_size, hr_init, ir_init)
build_tcp_server_context(hr_size, ir_size, hr_init, ir_init) ==
    ZeroBasedDeviceContext(
        RejectAllDataBlock,
        RejectAllDataBlock,
        IF hr_size > 0 THEN LockedDataBlock(hr_size, hr_init) ELSE RejectAllDataBlock,
        IF ir_size > 0 THEN LockedDataBlock(ir_size, ir_init) ELSE RejectAllDataBlock)

\* DEVICES of devices_spec.py; each register's init is given in raw units,
\* int(round(init / scale)) & 0xFFFF as _build_init_values computes it
DEVICES ==
    [dev \in Devices |->
        CASE dev = "PMS" ->
               [unit_id |-> 1, hr_size |-> 10, ir_size |-> 10,
                hr_registers |-> (0 :> 0),
                ir_registers |-> (0 :> 0 @@ 1 :> 0 @@ 2 :> 0 @@ 3 :> 0)]
          [] dev \in {"PCS1", "PCS2"} ->
               [unit_id |-> IF dev = "PCS1" THEN 2 ELSE 3,
                hr_size |-> 0, ir_size |-> 10,
                hr_registers |-> NoInit, ir_registers |-> (0 :> 0)]
          [] dev \in {"BMS1", "BMS2"} ->
               [unit_id |-> IF dev = "BMS1" THEN 4 ELSE 5,
                hr_size |-> 0, ir_size |-> 10,
                hr_registers |-> NoInit,
                ir_registers |-> (0 :> 50 @@ 1 :> 100 @@ 2 :> 1000)]]

\* create_server_context(): the context of one device of DEVICES
create_server_context(dev) ==
    LET spec == DEVICES[dev]
    IN  ZeroBasedDeviceContext(
            RejectAllDataBlock,
            RejectAllDataBlock,
            IF spec.hr_size > 0 /\ DOMAIN spec.hr_registers # {}
            THEN LockedDataBlock(spec.hr_size, spec.hr_registers)
            ELSE RejectAllDataBlock,
            IF spec.ir_size > 0 /\ DOMAIN spec.ir_registers # {}
            THEN LockedDataBlock(spec.ir_size, spec.ir_registers)
            ELSE RejectAllDataBlock)

\* run_pms_server / run_pcs_server / run_bms_server: the context each
\* device process builds (register words as encode_soc, encode_soh and
\* encode_capacity_kwh give them)
run_server_context(dev) ==
    CASE dev = "PMS" ->
           build_tcp_server_context(10, 10, (0 :> 0),
                                    (0 :> 0 @@ 1 :> 50 @@ 2 :> 100 @@ 3 :> 2000))
      [] dev \in {"PCS1", "PCS2"} ->
           build_tcp_server_context(10, 10, (0 :> 0), (0 :> 0))
      [] dev \in {"BMS1", "BMS2"} ->
           build_tcp_server_context(0, 10, NoInit,
                                    (0 :> 50 @@ 1 :> 100 @@ 2 :> 1000))

NoReply ==
    [dev |-> "none", function_code |-> 0, address |-> 0, count |-> 0,
     exc |-> 0, values |-> <<>>, before |-> RejectAllDataBlock]

\* no codec has been called on its own
NoCodec ==
    [module |-> "none", quantity |-> "none", first |-> "none", input |-> 0,
     steps |-> 0, raised |-> FALSE, mid |-> 0, out |-> 0]

\* a read request (function codes 1..4) served by a device's server:
\* the context's getValues decides the answer
InboundRead(dev, fc, address, count) ==
    /\ program \in {"monolith", "processes"}
    /\ LET r == ctx_getValues(stores[dev], fc, address, count)
       IN  reply' = [dev |-> dev, function_code |-> fc, address |-> address,
                     count |-> count, exc |-> r.exc, values |-> r.values,
                     before |-> stores[dev][decode(fc)]]
    /\ UNCHANGED <<program, codec, stores>>

\* a write request (function codes 5, 6, 15, 16) served by a device's
\* server: the context's setValues decides the answer
InboundWrite(dev, fc, address, values) ==
    /\ program \in {"monolith", "processes"}
    /\ fc \in {5, 6} => Len(values) = 1
    /\ LET r == ctx_setValues(stores[dev], fc, address, values)
       IN  /\ stores' = [stores EXCEPT ![dev] = r.ctx]
           /\ reply' = [dev |-> dev, function_code |-> fc, address |-> address,
                        count |-> Len(values), exc |-> r.exc,
                        values |-> IF r.exc = 0 THEN values ELSE <<>>,
                        before |-> stores[dev][decode(fc)]]
    /\ UNCHANGED <<program, codec>>

\* ------------------------------------------------------------------------
\* src/TCP/tcp_servers/tcp_context.py : scaled codecs.  Powers are kept in
\* tenths of a kW, the unit of the registers (decode_power_kw multiplies the
\* signed word by 0.1 and encode_power_kw divides by 0.1 and rounds, which
\* gives the signed word back for each of the 65536 words); the SOC
\* accumulator is kept in SocScale-ths of a percent, in which the SOC change
\* of a tick is the whole number power * dt.
\* ------------------------------------------------------------------------
int16_to_u16(x) == x % 65536

\* the word read as unsigned
u16_to_int16_Unsigned(x) == x

\* _u16_to_int16(x): x - 0x10000 if x >= 0x8000 else x
u16_to_int16(x) == IF x >= 32768 THEN x - 65536 ELSE x

\* in tenths of a kW
decode_power_kw(reg_u16) == u16_to_int16(reg_u16 % 65536)

encode_power_kw(kw10) == int16_to_u16(kw10)

\* in percent
decode_soc(reg_u16) == reg_u16 % 65536

\* Python's round(): to the nearest integer, a tie to the even one
RoundHalfEven(n, d) ==
    LET q == n \div d
        r == n % d
    IN  IF 2 * r < d THEN q
        ELSE IF 2 * r > d THEN q + 1
        ELSE IF q % 2 = 0 THEN q ELSE q + 1

\* start_bms_controller(init_soc=50.0, capacity_kwh=100.0)
InitSoc == 50
CapacityKwh == 100

\* accumulator units per percent: a power of p tenths of a kW during dt
\* seconds changes the SOC by p * dt / (CapacityKwh * 360) percent
SocScale == CapacityKwh * 360

\* encode_soc of an accumulator value: clamp to [0, 100], round
encode_soc(soc) == RoundHalfEven(Max(0, Min(100 * SocScale, soc)), SocScale) % 65536

\* encode_power_kw(kw / n) for a power of kw10 tenths of a kW: the quotient is
\* rounded to a tenth.  kw / n / 0.1 is computed in binary floating point, so
\* where the exact quotient lies halfway between two tenths the result falls to
\* either side (measured for n = 2: 2.9 kW gives 15, 4.3 kW gives 21)
encode_power_split_Halved(kw10, n) == {int16_to_u16(RoundHalfEven(kw10, 2))}

encode_power_split(kw10, n) ==
    IF 2 * (kw10 % n) = n
    THEN {int16_to_u16(kw10 \div n), int16_to_u16(kw10 \div n + 1)}
    ELSE {int16_to_u16(RoundHalfEven(kw10, n))}

\* in percent
decode_soh(reg_u16) == reg_u16 % 65536

\* encode_soh(total / n) without the clamp to [0, 100]
encode_soh_mean_Unclamped(total, n) == RoundHalfEven(total, n) % 65536

\* encode_soh(total / n) for a sum of whole percents
encode_soh_mean(total, n) == RoundHalfEven(Max(0, Min(100 * n, total)), n) % 65536

\* encode_soc(total / n) for a sum of whole percents; a mean above 100 is
\* brought to 100 before it is scaled, as encode_soc would after
encode_soc_mean(total, n) == encode_soc((Min(100 * n, total) * SocScale) \div n)

\* in tenths of a kWh
decode_capacity_kwh(reg_u16) == reg_u16 % 65536

encode_capacity_kwh(kwh10) == Max(0, kwh10) % 65536

\* src/TCP/device.py, class DeviceModel: the codecs of tick.py
\* the outcome of a call: raise ValueError(...), or return word
Raised == [raised |-> TRUE, word |-> 0]
Returned(word) == [raised |-> FALSE, word |-> word]

\* DeviceModel.encode_power_kw(kw): raw = int(round(kw / scale)), ValueError
\* outside the int16 range (encode_power_raw_units does the same to a raw
\* value given as an integer)
DeviceModel_encode_power_kw(kw10) ==
    IF kw10 < -32768 \/ kw10 > 32767 THEN Raised ELSE Returned(int16_to_u16(kw10))

\* DeviceModel.encode_scaled_uint16(value, scale, min_val, max_val) of the
\* value n / d register units, the bounds given in register units
DeviceModel_encode_scaled_uint16(n, d, min_raw, max_raw) ==
    RoundHalfEven(Max(min_raw * d, Min(max_raw * d, n)), d) % 65536

\* ------------------------------------------------------------------------
\* src/TCP/controllers/pcs_controller.py, bms_controller.py
\* ------------------------------------------------------------------------
\* the paired devices whose processes run
PcsDev == "PCS1"
BmsDev == "BMS1"

\* soc = 50.0  # fallback
FallbackSoc == 50

NoPcsTick ==
    [pc |-> "idle", setpoint_u16 |-> 0, soc |-> 0, failed |-> FALSE,
     written |-> 0, ticks |-> 0]

NoBmsTick ==
    [soc_float |-> InitSoc * SocScale, err |-> 0, before |-> InitSoc * SocScale,
     power |-> 0, dt_s |-> 0, failed |-> FALSE, written |-> 0, ticks |-> 0]

\* the PMS controller before its first tick, started with pcs_ports (in the
\* order the dict is iterated) and bms_ports
NoPmsTick(pcs_ports, bms_ports) ==
    [pcs_ports |-> pcs_ports, bms_ports |-> bms_ports,
     pc |-> "idle", i |-> 0, demand_u16 |-> 0, setpoint_u16 |-> 0,
     total_active_kw |-> 0, soc_sum |-> 0, soh_sum |-> 0, cap_sum_kwh |-> 0,
     bms_count |-> 0, written |-> {}, added |-> {}, polled |-> {}, failed |-> {},
     before |-> <<>>, after |-> <<>>, ticks |-> 0]

\* run_pms_server's __main__: two PCS, two BMS
DefaultPcsPorts == <<"PCS1", "PCS2">>
DefaultBmsPorts == {"BMS1", "BMS2"}

\* threading.RLock(): owner and recursion level
FreeLock == [owner |-> "none", depth |-> 0]

\* the locks: one per device process, one for all devices of the monolith
Locks == Devices \cup {"all"}

\* the lock that guards the datablocks of dev: build_tcp_server_context makes
\* one per process, create_server_context one for all devices
LockOf(dev) == IF program = "monolith" THEN "all" ELSE dev

\* acquire() of a lock that is not reentrant
CanAcquire_NotReentrant(l, thread) == l.owner = "none"

\* RLock.acquire() returns at once for a free lock and for its owner
CanAcquire(l, thread) == l.owner \in {"none", thread}

acquire(l, thread) == [owner |-> thread, depth |-> l.depth + 1]

release(l) == IF l.depth <= 1 THEN FreeLock ELSE [l EXCEPT !.depth = l.depth - 1]

NoInbound ==
    [kind |-> "none", dev |-> "none", function_code |-> 0, address |-> 0,
     count |-> 0, values |-> <<>>, served |-> 0]

NoCall == [sent |-> FALSE, dt_s |-> 0]

\* _float_state = {}, no tick yet
NoTickLoop == [float_state |-> [b \in {} |-> 0], dt_s |-> 0, ticks |-> 0]

InitNoPms ==
    /\ pmsCtl = NoPmsTick(DefaultPcsPorts, DefaultBmsPorts)
    /\ lock = [l \in Locks |-> FreeLock]
    /\ inb = NoInbound
    /\ bmsCall = NoCall
    /\ tickLoop = NoTickLoop

InitNoControllers ==
    /\ pcsCtl = NoPcsTick
    /\ bmsCtl = NoBmsTick
    /\ InitNoPms

\* ticks of the two controllers so far
TicksDone == pcsCtl.ticks + bmsCtl.ticks

\* client.read_input_registers(address, 1, slave=1) to the server of dev:
\* reached says whether connect and the round trip went through; the result
\* is the register, or a failure (exception raised, or error response)
read_input_registers(dev, address, reached) ==
    IF ~reached THEN [failed |-> TRUE, register |-> 0]
    ELSE LET rr == ctx_getValues(stores[dev], 4, address, 1)
         IN  IF rr.exc # 0 THEN [failed |-> TRUE, register |-> 0]
             ELSE [failed |-> FALSE, register |-> rr.values[1]]

\* _tick step 2 with a fallback of 0
soc_of_read_Zero(rr) == IF rr.failed THEN 0 ELSE decode_soc(rr.register)

\* _tick step 2: the SOC the tick goes on with
soc_of_read(rr) == IF rr.failed THEN FallbackSoc ELSE decode_soc(rr.register)

\* _tick step 3 with the two tests on the setpoint exchanged
clamp_Exchanged(soc, setpoint_kw) ==
    IF soc <= 0 /\ setpoint_kw < 0 THEN 0
    ELSE IF soc >= 100 /\ setpoint_kw > 0 THEN 0
    ELSE setpoint_kw

\* the clamp without the limit on the discharge
clamp_ChargeOnly(soc, setpoint_kw) ==
    IF soc >= 100 /\ setpoint_kw < 0 THEN 0 ELSE setpoint_kw

\* _tick step 3: active_power_kw
clamp(soc, setpoint_kw) ==
    IF soc <= 0 /\ setpoint_kw > 0 THEN 0
    ELSE IF soc >= 100 /\ setpoint_kw < 0 THEN 0
    ELSE setpoint_kw

\* _tick step 1: read own setpoint from HR0
PcsReadSetpoint ==
    /\ program = "processes"
    /\ pcsCtl.pc = "idle"
    /\ TicksDone < MaxTicks
    /\ pcsCtl' = [pcsCtl EXCEPT
                    !.pc = "read_soc",
                    !.setpoint_u16 = block_getValues(stores[PcsDev].h, 0, 1).values[1]]
    /\ UNCHANGED <<program, codec, stores, reply, bmsCtl>>

\* _tick steps 2..4: read the paired BMS's SOC, clamp, write own IR0
PcsFinishTick(reached) ==
    /\ program = "processes"
    /\ pcsCtl.pc = "read_soc"
    /\ LET rr  == read_input_registers(BmsDev, 0, reached)
           soc == soc_of_read(rr)
           active_power_kw == clamp(soc, decode_power_kw(pcsCtl.setpoint_u16))
           word == encode_power_kw(active_power_kw)
       IN  /\ stores' = [stores EXCEPT ![PcsDev].i =
                            block_setValues(stores[PcsDev].i, 0, <<word>>).block]
           /\ pcsCtl' = [pcsCtl EXCEPT !.pc = "idle", !.soc = soc,
                                       !.failed = rr.failed, !.written = word,
                                       !.ticks = pcsCtl.ticks + 1]
    /\ UNCHANGED <<program, codec, reply, bmsCtl>>

\* _loop step 1 that keeps the power of the tick before when the read fails
power_of_read_Stale(rr) == IF rr.failed THEN bmsCtl.power ELSE decode_power_kw(rr.register)

\* _loop step 1: active_power_kw
power_of_read(rr) == IF rr.failed THEN 0 ELSE decode_power_kw(rr.register)

\* _loop step 2 without the clamp
soc_update_Unclamped(soc_float, active_power_kw, dt_s) ==
    IF CapacityKwh > 0 THEN soc_float - active_power_kw * dt_s ELSE soc_float

\* the SOC update with the sign of delta_soc reversed
soc_update_Reversed(soc_float, active_power_kw, dt_s) ==
    IF CapacityKwh > 0
    THEN Max(0, Min(100 * SocScale, soc_float + active_power_kw * dt_s))
    ELSE soc_float

\* _loop step 2: soc_float after the tick
soc_update(soc_float, active_power_kw, dt_s) ==
    IF CapacityKwh > 0
    THEN Max(0, Min(100 * SocScale, soc_float - active_power_kw * dt_s))
    ELSE soc_float

\* The accumulator is a binary floating-point number.  Where its exact value
\* lies halfway between two whole percents, the rounding error of the
\* additions so far decides to which side round() goes (measured: 47.5
\* reached in three steps of -2.5/3 gives 47, 46.5 reached in three steps of
\* -3.5/3 gives 47).  err is the sign of that error: it is kept when a tick
\* adds nothing, it is 0 at the clamp limits, and a tick that moves the
\* accumulator onto a tie may leave any sign.
float_err(soc_before, err_before, soc_after, scale) ==
    IF soc_after = soc_before THEN {err_before}
    ELSE IF soc_after = 0 \/ soc_after = 100 * scale THEN {0}
    ELSE IF 2 * (soc_after % scale) = scale THEN {-1, 0, 1}
    ELSE {0}

\* encode_soc of the floating-point accumulator
encode_soc_float(soc, err, scale) ==
    LET c == Max(0, Min(100 * scale, soc))
    IN  IF 2 * (c % scale) = scale /\ err # 0
        THEN (IF err < 0 THEN c \div scale ELSE c \div scale + 1) % 65536
        ELSE RoundHalfEven(c, scale) % 65536

\* the SOC an iteration starts from, were it taken from the SOC register
accumulator_FromRegister(ctl, ss) == decode_soc(ss[BmsDev].i.values[0]) * SocScale

\* the SOC an iteration starts from: the loop's local soc_float
accumulator(ctl, ss) == ctl.soc_float

\* one iteration of the BMS _loop, dt_s seconds after the one before
BmsTick(reached, dt_s) ==
    /\ program = "processes"
    /\ TicksDone < MaxTicks
    /\ LET rr == read_input_registers(PcsDev, 0, reached)
           active_power_kw == power_of_read(rr)
           start == accumulator(bmsCtl, stores)
           soc_float == soc_update(start, active_power_kw, dt_s)
       IN  \E err \in float_err(start, bmsCtl.err, soc_float, SocScale) :
              LET word == encode_soc_float(soc_float, err, SocScale)
              IN  /\ stores' = [stores EXCEPT ![BmsDev].i =
                                   block_setValues(stores[BmsDev].i, 0, <<word>>).block]
                  /\ bmsCtl' = [soc_float |-> soc_float, err |-> err,
                                before |-> bmsCtl.soc_float,
                                power |-> active_power_kw, dt_s |-> dt_s,
                                failed |-> rr.failed, written |-> word,
                                ticks |-> bmsCtl.ticks + 1]
    /\ UNCHANGED <<program, codec, reply, pcsCtl>>

\* ------------------------------------------------------------------------
\* src/TCP/tick.py : the tick of the monolith.  The accumulators of
\* _float_state are kept in MonoScale-ths of a percent, in which the SOC
\* change of a tick is demand * dt for a demand in tenths of a kW.
\* ------------------------------------------------------------------------
\* pcs_uids, in the order of DEVICES, and PCS_TO_BMS
PcsUids == <<"PCS1", "PCS2">>
PCS_TO_BMS == [pcs \in {"PCS1", "PCS2"} |-> IF pcs = "PCS1" THEN "BMS1" ELSE "BMS2"]

MonoScale == Len(PcsUids) * SocScale

\* _get_reg(block, addr)
get_reg(block, addr) == block_getValues(block, addr, 1).values[1]

\* _set_reg(block, addr, value_u16)
set_reg(block, addr, value_u16) == block_setValues(block, addr, <<value_u16>>).block

RECURSIVE SumOver(_, _)
SumOver(f, names) ==
    IF names = <<>> THEN 0 ELSE f[Head(names)] + SumOver(f, Tail(names))

\* tick_once, part 3 with the accumulator taken from the SOC register in
\* every tick
soc_start_FromRegister(float_state, bms, soc_now) == [soc |-> soc_now * MonoScale, err |-> 0]

\* tick_once, part 3: the accumulator of bms, initialised from the SOC
\* register on the first tick
soc_start(float_state, bms, soc_now) ==
    IF bms \in DOMAIN float_state THEN float_state[bms]
    ELSE [soc |-> soc_now * MonoScale, err |-> 0]

\* tick_once(stores, dt_s, lock): the whole batch runs inside "with lock"
TickOnce(dt_s) ==
    /\ program = "monolith"
    /\ tickLoop.ticks < MaxTicks
    /\ CanAcquire(lock[LockOf("PMS")], "controller")
    /\ LET num_pcs == Len(PcsUids)
           bmss == [k \in 1..num_pcs |-> PCS_TO_BMS[PcsUids[k]]]
           demand_kw == decode_power_kw(get_reg(stores["PMS"].h, 0))
           soh_now == [b \in Devices |-> decode_soh(get_reg(stores[b].i, 1))]
           cap_kwh == [b \in Devices |-> decode_capacity_kwh(get_reg(stores[b].i, 2))]
           start == [b \in Devices |->
                        soc_start(tickLoop.float_state, b,
                                  decode_soc(get_reg(stores[b].i, 0)))]
           soc_float == [b \in Devices |->
                            IF cap_kwh[b] > 0
                            THEN Max(0, Min(100 * MonoScale,
                                     start[b].soc
                                     - (demand_kw * dt_s * (CapacityKwh * 10)) \div cap_kwh[b]))
                            ELSE start[b].soc]
           errs(e) == [b \in Devices |->
                          LET es == float_err(start[b].soc, start[b].err, soc_float[b], MonoScale)
                          IN  IF e \in es THEN e ELSE CHOOSE x \in es : TRUE]
           soc_sum == SumOver(soc_float, bmss)
           same == \A k \in 1..num_pcs : soc_float[bmss[k]] = soc_float[bmss[1]]
       IN  \E per_pcs \in encode_power_split(demand_kw, num_pcs), e \in {-1, 0, 1} :
              /\ stores' =
                    [dev \in DOMAIN stores |->
                        IF dev \in {PcsUids[k] : k \in 1..num_pcs}
                        THEN [stores[dev] EXCEPT !.i = set_reg(stores[dev].i, 0, per_pcs)]
                        ELSE IF dev \in {bmss[k] : k \in 1..num_pcs}
                        THEN [stores[dev] EXCEPT !.i =
                                 set_reg(stores[dev].i, 0,
                                         encode_soc_float(soc_float[dev], errs(e)[dev], MonoScale))]
                        ELSE [stores[dev] EXCEPT !.i =
                                 set_reg(
                                   set_reg(
                                     set_reg(
                                       set_reg(stores[dev].i, 0, encode_power_kw(demand_kw)),
                                       1, encode_soc_float(soc_sum,
                                                           IF same THEN errs(e)[bmss[1]] ELSE 0,
                                                           num_pcs * MonoScale)),
                                     2, encode_soh_mean(SumOver(soh_now, bmss), num_pcs)),
                                   3, DeviceModel_encode_scaled_uint16(SumOver(cap_kwh, bmss),
                                                                        1, 0, 65535))]]
              /\ tickLoop' = [float_state |->
                                 [b \in {bmss[k] : k \in 1..num_pcs} |->
                                     [soc |-> soc_float[b], err |-> errs(e)[b]]],
                              dt_s |-> dt_s, ticks |-> tickLoop.ticks + 1]
    /\ UNCHANGED <<program, codec, reply, pcsCtl, bmsCtl, pmsCtl, lock, inb, bmsCall>>

\* ------------------------------------------------------------------------
\* src/TCP/controllers/pms_controller.py
\* ------------------------------------------------------------------------
\* pairing of run_pms_server: each PCS and its BMS
Pairing == [pcs \in {"PCS1", "PCS2"} |-> IF pcs = "PCS1" THEN "BMS1" ELSE "BMS2"]

\* client.read_input_registers(address, count, slave=1) to the server of dev
read_input_block(dev, address, count, reached) ==
    IF ~reached THEN [failed |-> TRUE, registers |-> <<>>]
    ELSE LET rr == ctx_getValues(stores[dev], 4, address, count)
         IN  IF rr.exc # 0 THEN [failed |-> TRUE, registers |-> <<>>]
             ELSE [failed |-> FALSE, registers |-> rr.values]

\* the for loop left at the first peer that fails
next_peer_AbortOnFailure(i, n, failed) == IF failed THEN n + 1 ELSE i + 1

\* the for loop goes on to the next PCS whatever happened to this one
next_peer(i, n, failed) == i + 1

\* total_active_kw keeping the last reading only
add_active_power_Last(total_active_kw, rr) ==
    IF rr.failed THEN total_active_kw ELSE decode_power_kw(rr.registers[1])

\* if not rr.isError(): total_active_kw += decode_power_kw(rr.registers[0])
add_active_power(total_active_kw, rr) ==
    IF rr.failed THEN total_active_kw
    ELSE total_active_kw + decode_power_kw(rr.registers[1])

\* bms_count counting every BMS polled
count_bms_All(bms_count, answered) == bms_count + 1

\* bms_count += 1 for a BMS that answered
count_bms(bms_count, answered) == IF answered THEN bms_count + 1 ELSE bms_count

\* the lock while step 6 runs, were the batch not enclosed in "with lock"
batch_lock_None(l) == l

\* the lock while step 6 runs: "with lock" around the batch
batch_lock(l) == acquire(l, "controller")

\* IR0..IR3 of the PMS
PmsIr(ss) == [k \in 1..4 |-> ss["PMS"].i.values[k - 1]]

\* IR3 left as it is when no BMS answered
capacity_total_Kept(ctl, ir) ==
    IF ctl.bms_count > 0 THEN encode_capacity_kwh(ctl.cap_sum_kwh) ELSE ir[4]

\* step 6: IR3 is written whatever bms_count is
capacity_total(ctl, ir) == encode_capacity_kwh(ctl.cap_sum_kwh)

\* step 6: the words the batch leaves in IR0..IR3
aggregates(ctl, ir) ==
    <<encode_power_kw(ctl.total_active_kw),
      IF ctl.bms_count > 0 THEN encode_soc_mean(ctl.soc_sum, ctl.bms_count) ELSE ir[2],
      IF ctl.bms_count > 0 THEN encode_soh_mean(ctl.soh_sum, ctl.bms_count) ELSE ir[3],
      capacity_total(ctl, ir)>>

\* _tick with no PCS configured: returns at once; the loop has run fewer
\* than limit ticks
PmsEmptyTickUpTo(limit) ==
    /\ program = "processes"
    /\ pmsCtl.pc = "idle"
    /\ pmsCtl.ticks < limit
    /\ Len(pmsCtl.pcs_ports) = 0
    /\ pmsCtl' = [pmsCtl EXCEPT !.ticks = pmsCtl.ticks + 1,
                                !.written = {}, !.added = {}, !.polled = {}, !.failed = {},
                                !.bms_count = 0,
                                !.before = PmsIr(stores), !.after = PmsIr(stores)]
    /\ UNCHANGED <<program, codec, stores, reply, pcsCtl, bmsCtl, lock, inb, bmsCall, tickLoop>>

PmsEmptyTick == PmsEmptyTickUpTo(MaxPmsTicks)

\* _tick steps 1 and 2: read the demand from HR0, split it; the loop has run
\* fewer than limit ticks
PmsReadDemandUpTo(limit) ==
    /\ program = "processes"
    /\ pmsCtl.pc = "idle"
    /\ pmsCtl.ticks < limit
    /\ Len(pmsCtl.pcs_ports) > 0
    /\ CanAcquire(lock[LockOf("PMS")], "controller")
    /\ LET demand_u16 == get_reg(stores["PMS"].h, 0)
       IN  \E setpoint_u16 \in encode_power_split(decode_power_kw(demand_u16),
                                                  Len(pmsCtl.pcs_ports)) :
              pmsCtl' = [pmsCtl EXCEPT
                            !.pc = "poll", !.i = 1,
                            !.demand_u16 = demand_u16, !.setpoint_u16 = setpoint_u16,
                            !.total_active_kw = 0, !.soc_sum = 0, !.soh_sum = 0,
                            !.cap_sum_kwh = 0, !.bms_count = 0,
                            !.written = {}, !.added = {}, !.polled = {}, !.failed = {}]
    /\ UNCHANGED <<program, codec, stores, reply, pcsCtl, bmsCtl, lock, inb, bmsCall, tickLoop>>

PmsReadDemand == PmsReadDemandUpTo(MaxPmsTicks)

\* _tick steps 3 to 5 for one PCS of the for loop.  pcs_outcome: "down" (the
\* connection or the write raises), "written" (the write goes through, the
\* read raises or returns an error) or "ok"; bms_reached: whether the read of
\* the paired BMS goes through
PmsPollPeer(pcs_outcome, bms_reached) ==
    /\ program = "processes"
    /\ pmsCtl.pc = "poll"
    /\ LET pcs == pmsCtl.pcs_ports[pmsCtl.i]
           bms == Pairing[pcs]
           has_bms == bms \in pmsCtl.bms_ports
           rr == read_input_block(pcs, 0, 1, pcs_outcome = "ok")
           rb == read_input_block(bms, 0, 3, has_bms /\ bms_reached)
           bad == pcs_outcome # "ok" \/ (has_bms /\ rb.failed)
           i == next_peer(pmsCtl.i, Len(pmsCtl.pcs_ports), bad)
       IN  /\ pcs_outcome # "down" => CanAcquire(lock[LockOf(pcs)], "server")
           /\ has_bms /\ bms_reached => CanAcquire(lock[LockOf(bms)], "server")
           /\ stores' = IF pcs_outcome # "down"
                        THEN [stores EXCEPT ![pcs] =
                                 ctx_setValues(stores[pcs], 6, 0, <<pmsCtl.setpoint_u16>>).ctx]
                        ELSE stores
           /\ pmsCtl' = [pmsCtl EXCEPT
                 !.i = i,
                 !.pc = IF i > Len(pmsCtl.pcs_ports) THEN "batch" ELSE "poll",
                 !.total_active_kw = add_active_power(@, rr),
                 !.soc_sum = IF rb.failed THEN @ ELSE @ + decode_soc(rb.registers[1]),
                 !.soh_sum = IF rb.failed THEN @ ELSE @ + decode_soh(rb.registers[2]),
                 !.cap_sum_kwh =
                     IF rb.failed THEN @ ELSE @ + decode_capacity_kwh(rb.registers[3]),
                 !.bms_count = IF has_bms THEN count_bms(@, ~rb.failed) ELSE @,
                 !.written = IF pcs_outcome # "down" THEN @ \cup {pcs} ELSE @,
                 !.added = IF rr.failed THEN @ ELSE @ \cup {pcs},
                 !.polled = IF rb.failed THEN @ ELSE @ \cup {bms},
                 !.failed = @ \cup (IF pcs_outcome # "ok" THEN {pcs} ELSE {})
                              \cup (IF has_bms /\ rb.failed THEN {bms} ELSE {})]
    /\ UNCHANGED <<program, codec, reply, pcsCtl, bmsCtl, lock, inb, bmsCall, tickLoop>>

\* _tick step 6: "with lock"
PmsBatchEnter ==
    /\ program = "processes"
    /\ pmsCtl.pc = "batch"
    /\ CanAcquire(lock[LockOf("PMS")], "controller")
    /\ lock' = [lock EXCEPT ![LockOf("PMS")] = batch_lock(@)]
    /\ pmsCtl' = [pmsCtl EXCEPT !.pc = "ir0",
                                !.before = PmsIr(stores),
                                !.after = aggregates(pmsCtl, PmsIr(stores))]
    /\ UNCHANGED <<program, codec, stores, reply, pcsCtl, bmsCtl, inb, bmsCall, tickLoop>>

\* the batch written to the holding registers of the PMS
PmsSetValues_Holding(at, address, word, then) ==
    /\ program = "processes"
    /\ pmsCtl.pc = at
    /\ CanAcquire(lock[LockOf("PMS")], "controller")
    /\ stores' = [stores EXCEPT !["PMS"].h = set_reg(@, address, word)]
    /\ pmsCtl' = [pmsCtl EXCEPT !.pc = then]
    /\ UNCHANGED <<program, codec, reply, pcsCtl, bmsCtl, lock, inb, bmsCall, tickLoop>>

\* one setValues of the batch: register address gets word; LockedDataBlock
\* takes the lock again for the call
PmsSetValues(at, address, word, then) ==
    /\ program = "processes"
    /\ pmsCtl.pc = at
    /\ CanAcquire(lock[LockOf("PMS")], "controller")
    /\ stores' = [stores EXCEPT !["PMS"].i = set_reg(@, address, word)]
    /\ pmsCtl' = [pmsCtl EXCEPT !.pc = then]
    /\ UNCHANGED <<program, codec, reply, pcsCtl, bmsCtl, lock, inb, bmsCall, tickLoop>>

\* stores["ir"].setValues(IR0_TOTAL_POWER, [encode_power_kw(total_active_kw)])
PmsWriteTotal ==
    PmsSetValues("ir0", 0, encode_power_kw(pmsCtl.total_active_kw),
                 IF pmsCtl.bms_count > 0 THEN "ir1" ELSE "ir3")

\* stores["ir"].setValues(IR1_SOC_AVG, [encode_soc(soc_sum / bms_count)])
PmsWriteSoc ==
    /\ pmsCtl.bms_count > 0
    /\ PmsSetValues("ir1", 1, encode_soc_mean(pmsCtl.soc_sum, pmsCtl.bms_count), "ir2")

\* stores["ir"].setValues(IR2_SOH_AVG, [encode_soh(soh_sum / bms_count)])
PmsWriteSoh ==
    /\ pmsCtl.bms_count > 0
    /\ PmsSetValues("ir2", 2, encode_soh_mean(pmsCtl.soh_sum, pmsCtl.bms_count), "ir3")

\* stores["ir"].setValues(IR3_CAP_TOTAL, [...]), the end of the with block
\* and of the tick
PmsWriteCapacity ==
    /\ program = "processes"
    /\ pmsCtl.pc = "ir3"
    /\ CanAcquire(lock[LockOf("PMS")], "controller")
    /\ stores' = [stores EXCEPT !["PMS"].i =
                      set_reg(@, 3, capacity_total(pmsCtl, PmsIr(stores)))]
    /\ lock' = [lock EXCEPT ![LockOf("PMS")] = release(@)]
    /\ pmsCtl' = [pmsCtl EXCEPT !.pc = "idle", !.ticks = pmsCtl.ticks + 1]
    /\ UNCHANGED <<program, codec, reply, pcsCtl, bmsCtl, inb, bmsCall, tickLoop>>

\* a request arrives at the server of a device; its thread is about to call
\* getValues / setValues of the context
InboundArrive(req) ==
    /\ program = "processes"
    /\ inb.kind = "none"
    /\ inb.served < MaxInbound
    /\ inb' = [req EXCEPT !.served = inb.served]
    /\ UNCHANGED <<program, codec, stores, reply, pcsCtl, bmsCtl, pmsCtl, lock, bmsCall, tickLoop>>

\* the server thread gets the lock of the datablock and serves the request
InboundServe ==
    /\ inb.kind # "none"
    /\ CanAcquire(lock[LockOf(inb.dev)], "server")
    /\ IF inb.kind = "read"
       THEN InboundRead(inb.dev, inb.function_code, inb.address, inb.count)
       ELSE InboundWrite(inb.dev, inb.function_code, inb.address, inb.values)
    /\ inb' = [NoInbound EXCEPT !.served = inb.served + 1]
    /\ UNCHANGED <<pcsCtl, bmsCtl, pmsCtl, lock, bmsCall, tickLoop>>

\* ------------------------------------------------------------------------
\* Client input: the byte streams put on the wire
\* ------------------------------------------------------------------------
\* <<function code, address, value or count>> of the requests clients send
ReadRequests ==
    {<<3, 0, 1>>, <<3, 1, 2>>, <<3, 73, 127>>, <<3, 199, 1>>,
     <<3, 72, 128>>, <<3, 0, 200>>, <<3, 0, 0>>, <<3, 199, 2>>, <<3, 200, 1>>}

WriteRequests ==
    {<<6, 0, 258>>, <<6, 1, 65535>>, <<6, 199, 7>>, <<6, 200, 7>>}

OtherRequests == {<<4, 0, 1>>, <<16, 0, 1>>, <<131, 1, 1>>}

\* transaction id and unit id the clients put in their requests
ClientIds == [a |-> [tid |-> 258, unit |-> 1], b |-> [tid |-> 3, unit |-> 1]]

RequestFrames ==
    {ClientFrame(ClientIds.a.tid, 0, ClientIds.a.unit, r[1], r[2], r[3]) :
        r \in ReadRequests \cup WriteRequests \cup OtherRequests}

\* complete frames that parse_request_pdu refuses
MalformedFrames ==
    { ClientFrame(ClientIds.a.tid, 1, ClientIds.a.unit, 6, 0, 5), \* protocol id 1
      PackH(ClientIds.a.tid) \o PackH(0) \o PackH(5) \o <<1, 6, 0, 0, 5>>, \* 4 PDU bytes
      PackH(ClientIds.a.tid) \o PackH(0) \o PackH(1) \o <<1>> }  \* no PDU at all

RECURSIVE StreamsOf(_, _)
StreamsOf(F, n) ==
    IF n = 0 THEN {<<>>}
    ELSE LET S == StreamsOf(F, n - 1) IN S \cup {s \o f : s \in S, f \in F}

\* the requests sent before and after the request under study
FollowFrames ==
    {ClientFrame(ClientIds.b.tid, 0, ClientIds.b.unit, r[1], r[2], r[3]) : r \in {<<6, 1, 258>>, <<3, 0, 2>>}}

\* streams of at most n frames, at most one of them out of F
StreamsAround(F, n) ==
    UNION { {s \o f \o t : s \in StreamsOf(FollowFrames, i),
                           f \in F \cup {<<>>},
                           t \in StreamsOf(FollowFrames, n - 1 - i)} :
            i \in 0..(n - 1) }

RECURSIVE RawStreams(_)
RawStreams(n) ==
    IF n = 0 THEN {<<>>}
    ELSE LET S == RawStreams(n - 1) IN S \cup {Append(s, b) : s \in S, b \in {0, 1}}

\* the requests of the clients that share the device in SpecShared
SharedFrames(c) ==
    IF c = "c1"
    THEN {ClientFrame(ClientIds.a.tid, 0, ClientIds.a.unit, r[1], r[2], r[3]) :
            r \in {<<6, 1, 258>>, <<6, 199, 9>>, <<3, 1, 1>>, <<3, 198, 2>>}}
    ELSE {ClientFrame(ClientIds.b.tid, 0, ClientIds.b.unit, r[1], r[2], r[3]) :
            r \in {<<6, 1, 65535>>}}

\* ------------------------------------------------------------------------
\* Specifications
\* ------------------------------------------------------------------------
\* no device server runs beside the connection handler
InitNoDevices ==
    /\ program = "server"
    /\ stores = [dev \in {} |-> RejectAllDataBlock]
    /\ reply = NoReply
    /\ codec = NoCodec
    /\ InitNoControllers

InitDevice ==
    /\ holding = HoldingInit
    /\ bgSteps = 0
    /\ FAULTS = ServerFaults

InitConns(active) ==
    /\ pc = [c \in Conns |-> IF c \in active THEN "recv" ELSE "closed"]
    /\ buf = [c \in Conns |-> <<>>]
    /\ recvd = [c \in Conns |-> <<>>]
    /\ frames = [c \in Conns |-> <<>>]
    /\ out = [c \in Conns |-> <<>>]
    /\ last = [c \in Conns |-> NoStep]
    /\ pend = [c \in Conns |-> NoPend]

\* one client talking to the server of src/server.py, whose bytes arrive in
\* reads of any size; the background updater is left to SpecShared
Init ==
    /\ InitDevice
    /\ InitConns({"c1"})
    /\ \E s \in StreamsAround(RequestFrames \cup MalformedFrames, MaxFrames)
                  \cup RawStreams(MaxRawLen) :
          wire = [c \in Conns |-> IF c = "c1" THEN s ELSE <<>>]
    /\ quota = [c \in Conns |-> 0]
    /\ InitNoDevices

Handler(c) ==
    \/ \E k \in 1..Len(wire[c]) : Recv(c, k)
    \/ RecvTimeout(c)
    \/ RecvEof(c)
    \/ DrainBreak(c)
    \/ ProcessFrame(c)

Next ==
    /\ \E c \in Conns : Handler(c)
    /\ UNCHANGED <<dvars, cvars>>

Spec == Init /\ [][Next]_vars

\* two clients sharing the device, with the background updater running;
\* each recv returns everything the client has sent so far
InitShared ==
    /\ InitDevice
    /\ InitConns(Conns)
    /\ wire = [c \in Conns |-> <<>>]
    /\ quota = [c \in Conns |-> IF c = "c1" THEN MaxFrames ELSE MaxFramesOther]
    /\ InitNoDevices

HandlerShared(c) ==
    \/ \E f \in SharedFrames(c) : ClientSend(c, f)
    \/ Recv(c, Min(Len(wire[c]), RecvSize))
    \/ RecvTimeout(c)
    \/ RecvEof(c)
    \/ DrainBreak(c)
    \/ ProcessFrame(c)

NextShared ==
    /\ \/ \E c \in Conns : HandlerShared(c)
       \/ BgStep
    /\ UNCHANGED <<dvars, cvars>>

SpecShared == InitShared /\ [][NextShared]_vars

\* the requests sent to the device servers
ReadCodes == {1, 2, 3, 4}
WriteCodes == {5, 6, 15, 16}
InboundAddresses == {0, 9, 10}
InboundCounts == {1, 2}
InboundValues == {<<65535>>, <<7, 8>>}

\* the connection handler idle: no connection was accepted
InitNoHandler ==
    /\ InitDevice
    /\ InitConns({})
    /\ wire = [c \in Conns |-> <<>>]
    /\ quota = [c \in Conns |-> 0]

\* the device servers: the single server of src/TCP/server.py with one
\* context per unit id, or one of the device processes of
\* src/TCP/tcp_servers, which holds the context of its own device only
InitDevices ==
    /\ InitNoHandler
    /\ program \in {"monolith", "processes"}
    /\ IF program = "monolith"
       THEN stores = [dev \in Devices |-> create_server_context(dev)]
       ELSE \E served \in Devices :
               stores = [dev \in {served} |-> run_server_context(dev)]
    /\ reply = NoReply
    /\ codec = NoCodec
    /\ InitNoControllers

NextDevices ==
    /\ \E dev \in DOMAIN stores, address \in InboundAddresses :
          \/ \E fc \in ReadCodes, count \in InboundCounts :
                InboundRead(dev, fc, address, count)
          \/ \E fc \in WriteCodes, values \in InboundValues :
                InboundWrite(dev, fc, address, values)
    /\ UNCHANGED <<hvars, cvars>>

SpecDevices == InitDevices /\ [][NextDevices]_vars

\* ------------------------------------------------------------------------
\* The handler under fault profiles other than the one of src/server.py
\* ------------------------------------------------------------------------
\* FaultInjector objects FAULTS can be set to (rates in percent)
FaultProfiles ==
    { ServerFaults,
      FaultInjector(5, 10, 11, 11, 0, 0),   \* delay, more fragments than some responses have bytes
      FaultInjector(0, 0, 1, 1, 50, 50),    \* drops and closes
      FaultInjector(0, 0, 0, 2, 0, 100),    \* always closes
      FaultInjector(0, 0, 1, 1, 100, 0),    \* always drops
      FaultInjector(0, 0, 3, 2, 0, 0),      \* chunk_min > chunk_max
      FaultInjector(9, 5, 1, 1, 0, 0) }     \* delay_ms_min > delay_ms_max

\* requests answered with 12, 11 and 9 bytes
FaultFrames ==
    {ClientFrame(ClientIds.a.tid, 0, ClientIds.a.unit, r[1], r[2], r[3]) :
        r \in {<<6, 1, 258>>, <<3, 1, 1>>, <<4, 0, 1>>}}

InitFaults ==
    /\ holding = HoldingInit
    /\ bgSteps = 0
    /\ FAULTS \in FaultProfiles
    /\ InitConns({"c1"})
    /\ \E s \in StreamsOf(FaultFrames, MaxFaultFrames) :
          wire = [c \in Conns |-> IF c = "c1" THEN s ELSE <<>>]
    /\ quota = [c \in Conns |-> 0]
    /\ InitNoDevices

\* each recv returns everything the client has sent
HandlerFaults(c) ==
    \/ Recv(c, Min(Len(wire[c]), RecvSize))
    \/ RecvTimeout(c)
    \/ RecvEof(c)
    \/ DrainBreak(c)
    \/ ProcessFrame(c)

NextFaults ==
    /\ \E c \in Conns : HandlerFaults(c)
    /\ UNCHANGED <<dvars, cvars>>

SpecFaults == InitFaults /\ [][NextFaults]_vars

\* ------------------------------------------------------------------------
\* The processes of a PCS and its paired BMS, each with its controller
\* ------------------------------------------------------------------------
\* the words a client writes to the PCS's HR0: +36 kW, +180 kW, +1800 kW,
\* -1800 kW
SetpointWords == {360, 1800, 18000, 47536}

\* seconds between two iterations of the BMS loop
DtChoices == {0, 10, 100}

InitControllers ==
    /\ InitNoHandler
    /\ program = "processes"
    /\ stores = [dev \in {PcsDev, BmsDev} |-> run_server_context(dev)]
    /\ reply = NoReply
    /\ codec = NoCodec
    /\ InitNoControllers

NextControllers ==
    /\ \/ \E word \in SetpointWords : InboundWrite(PcsDev, 6, 0, <<word>>) /\ UNCHANGED cvars
       \/ PcsReadSetpoint
       \/ \E reached \in BOOLEAN : PcsFinishTick(reached)
       \/ \E reached \in BOOLEAN, dt_s \in DtChoices : BmsTick(reached, dt_s)
    /\ UNCHANGED <<hvars, pvars>>

SpecControllers == InitControllers /\ [][NextControllers]_vars

\* ------------------------------------------------------------------------
\* A BMS under a constant power: the BMS process next to its PCS, or the
\* monolith's tick loop, ticking at a fixed interval
\* ------------------------------------------------------------------------
\* active powers of a PCS whose change of the SOC is below half a percent a
\* tick: +-72 kW, +-90 kW, +-108 kW, +-144 kW
SteadyPowers == {720, 900, 1080, 1440, 64816, 64636, 64456, 64096}

\* seconds between two ticks
TickIntervals == {10, 12}

\* the BMS process and the monolith: the PCS controller has written the
\* active power to IR0 (processes), a client has written twice that power
\* to the demand register of the PMS (monolith)
InitAccumulator ==
    /\ InitNoHandler
    /\ reply = NoReply
    /\ codec = NoCodec
    /\ pcsCtl = NoPcsTick
    /\ pmsCtl = NoPmsTick(DefaultPcsPorts, DefaultBmsPorts)
    /\ lock = [l \in Locks |-> FreeLock]
    /\ inb = NoInbound
    /\ bmsCall = NoCall
    /\ \E word \in SteadyPowers, dt_s \in TickIntervals :
          \/ /\ program = "processes"
             /\ stores = [dev \in {PcsDev, BmsDev} |->
                            IF dev = PcsDev
                            THEN [run_server_context(dev) EXCEPT
                                     !.i = set_reg(run_server_context(dev).i, 0, word)]
                            ELSE run_server_context(dev)]
             /\ bmsCtl = [NoBmsTick EXCEPT !.dt_s = dt_s]
             /\ tickLoop = NoTickLoop
          \/ /\ program = "monolith"
             /\ stores = [dev \in Devices |->
                            IF dev = "PMS"
                            THEN [create_server_context(dev) EXCEPT
                                     !.h = set_reg(create_server_context(dev).h, 0,
                                                   encode_power_kw(2 * decode_power_kw(word)))]
                            ELSE create_server_context(dev)]
             /\ bmsCtl = NoBmsTick
             /\ tickLoop = [NoTickLoop EXCEPT !.dt_s = dt_s]

\* every tick comes one interval after the one before, and the peer answers
NextAccumulator ==
    \/ BmsTick(TRUE, bmsCtl.dt_s) /\ UNCHANGED <<hvars, pvars>>
    \/ TickOnce(tickLoop.dt_s) /\ UNCHANGED hvars

SpecAccumulator == InitAccumulator /\ [][NextAccumulator]_vars

\* the loops run for as long as their stop event is not set
SpecAccumulatorFair == SpecAccumulator /\ WF_vars(NextAccumulator)

\* ------------------------------------------------------------------------
\* The PMS process with its controller; the PCS and BMS processes answer its
\* requests
\* ------------------------------------------------------------------------
\* pcs_ports and bms_ports the PMS is started with
PmsConfigs ==
    { [pcs |-> <<>>, bms |-> {}],
      [pcs |-> <<"PCS1">>, bms |-> {}],
      [pcs |-> <<"PCS1", "PCS2">>, bms |-> {"BMS1", "BMS2"}] }

\* what the controllers of the peers have left in their input registers:
\* IR0 of PCS1 and PCS2 (500 kW, 3000 kW, -3000 kW), IR0 of BMS1 and BMS2
PeerStates ==
    { [PCS1 |-> 5000, PCS2 |-> 5000, BMS1 |-> 50, BMS2 |-> 45],
      [PCS1 |-> 30000, PCS2 |-> 30000, BMS1 |-> 50, BMS2 |-> 50],
      [PCS1 |-> 35536, PCS2 |-> 5000, BMS1 |-> 0, BMS2 |-> 100] }

\* the demands a client writes to HR0 of the PMS: 1000 kW, -2.9 kW
DemandWords == {10000, 65507}

\* the requests of the client of the PMS
PmsRequests ==
    { [kind |-> "read", dev |-> "PMS", function_code |-> 4, address |-> 0,
       count |-> 4, values |-> <<>>, served |-> 0] }
    \cup { [kind |-> "write", dev |-> "PMS", function_code |-> 6, address |-> 0,
            count |-> 1, values |-> <<word>>, served |-> 0] : word \in DemandWords }

InitPms ==
    /\ InitNoHandler
    /\ program = "processes"
    /\ \E peers \in PeerStates :
          stores = [dev \in Devices |->
                       IF dev = "PMS" THEN run_server_context(dev)
                       ELSE [run_server_context(dev) EXCEPT
                                !.i = set_reg(run_server_context(dev).i, 0, peers[dev])]]
    /\ reply = NoReply
    /\ codec = NoCodec
    /\ pcsCtl = NoPcsTick
    /\ bmsCtl = NoBmsTick
    /\ \E cfg \in PmsConfigs : pmsCtl = NoPmsTick(cfg.pcs, cfg.bms)
    /\ lock = [l \in Locks |-> FreeLock]
    /\ inb = NoInbound
    /\ bmsCall = NoCall
    /\ tickLoop = NoTickLoop

NextPms ==
    /\ \/ \E req \in PmsRequests : InboundArrive(req)
       \/ InboundServe
       \/ PmsEmptyTick
       \/ PmsReadDemand
       \/ \E pcs_outcome \in {"ok", "written", "down"}, bms_reached \in BOOLEAN :
             PmsPollPeer(pcs_outcome, bms_reached)
       \/ PmsBatchEnter
       \/ PmsWriteTotal
       \/ PmsWriteSoc
       \/ PmsWriteSoh
       \/ PmsWriteCapacity
    /\ UNCHANGED hvars

SpecPms == InitPms /\ [][NextPms]_vars

\* the steps of the controller thread of the PMS
PmsControllerStep ==
    /\ \/ PmsEmptyTick
       \/ PmsReadDemand
       \/ \E pcs_outcome \in {"ok", "written", "down"}, bms_reached \in BOOLEAN :
             PmsPollPeer(pcs_outcome, bms_reached)
       \/ PmsBatchEnter
       \/ PmsWriteTotal
       \/ PmsWriteSoc
       \/ PmsWriteSoh
       \/ PmsWriteCapacity
    /\ UNCHANGED hvars

\* the step of the server thread of the PMS
PmsServerStep == InboundServe /\ UNCHANGED hvars

\* Both threads run whenever they can: the controller thread is a loop of
\* ticks whose requests to the peers end by an answer or by the client's
\* timeout, the server thread blocks on the lock only.  The controller holds
\* the lock for the few statements of a with block and then sleeps for the
\* tick interval, so a thread that waits for the lock finds it free.
SpecPmsFair == SpecPms /\ WF_vars(PmsControllerStep) /\ WF_vars(PmsServerStep)

\* ------------------------------------------------------------------------
\* The three controller loops: the PMS with PCS1 and BMS1 configured, and the
\* controllers of PCS1 and BMS1
\* ------------------------------------------------------------------------
\* the seconds between two ticks of the BMS loop
LoopInterval == [dt_s |-> 10]

\* the ticks the three loops have run
AllTicks == pmsCtl.ticks + TicksDone

\* a loop whose thread ends with the first tick that failed
loop_continues_UnlessFailed(failed) == ~failed

\* while not stop_event.is_set(): try: _tick(...) except Exception: log;
\* nothing sets the stop event, and a failure inside the tick is caught
loop_continues(failed) == TRUE

InitLoops ==
    /\ InitNoHandler
    /\ program = "processes"
    /\ stores = [dev \in Devices |-> run_server_context(dev)]
    /\ reply = NoReply
    /\ codec = NoCodec
    /\ pcsCtl = NoPcsTick
    /\ bmsCtl = NoBmsTick
    /\ pmsCtl = NoPmsTick(<<PcsDev>>, {BmsDev})
    /\ lock = [l \in Locks |-> FreeLock]
    /\ inb = NoInbound
    /\ bmsCall = NoCall
    /\ tickLoop = NoTickLoop

\* the loop of the PMS controller
PmsLoopStep ==
    /\ \/ loop_continues(pmsCtl.failed # {}) /\ PmsReadDemandUpTo(MaxTicks - TicksDone)
       \/ \E pcs_outcome \in {"ok", "written", "down"}, bms_reached \in BOOLEAN :
             PmsPollPeer(pcs_outcome, bms_reached)
       \/ PmsBatchEnter
       \/ PmsWriteTotal
       \/ PmsWriteSoc
       \/ PmsWriteSoh
       \/ PmsWriteCapacity
    /\ UNCHANGED hvars

\* the loop of the PCS controller
PcsLoopStep ==
    /\ \/ loop_continues(pcsCtl.failed) /\ AllTicks < MaxTicks /\ PcsReadSetpoint
       \/ \E reached \in BOOLEAN : PcsFinishTick(reached)
    /\ UNCHANGED <<hvars, pvars>>

\* the loop of the BMS controller
BmsLoopStep ==
    /\ loop_continues(bmsCtl.failed)
    /\ AllTicks < MaxTicks
    /\ \E reached \in BOOLEAN : BmsTick(reached, LoopInterval.dt_s)
    /\ UNCHANGED <<hvars, pvars>>

NextLoops == PmsLoopStep \/ PcsLoopStep \/ BmsLoopStep

SpecLoops == InitLoops /\ [][NextLoops]_vars

\* Each loop is a thread of its own process that runs until its stop event is
\* set; a request to a peer ends after the client's timeout at the latest.
SpecLoopsFair ==
    SpecLoops /\ WF_vars(PmsLoopStep) /\ WF_vars(PcsLoopStep) /\ WF_vars(BmsLoopStep)

\* ------------------------------------------------------------------------
\* The plant of five processes: the PMS polls PCS1, PCS2, BMS1 and BMS2; the
\* controllers of PCS1 and BMS1 run, and a client has written a demand of
\* 1000 kW to the PMS
\* ------------------------------------------------------------------------
InitPlant ==
    /\ InitNoHandler
    /\ program = "processes"
    /\ \E demand_u16 \in {10000} :
          stores = [dev \in Devices |->
                       IF dev = "PMS"
                       THEN ctx_setValues(run_server_context(dev), 6, 0, <<demand_u16>>).ctx
                       ELSE run_server_context(dev)]
    /\ reply = NoReply
    /\ codec = NoCodec
    /\ pcsCtl = NoPcsTick
    /\ bmsCtl = NoBmsTick
    /\ pmsCtl = NoPmsTick(DefaultPcsPorts, DefaultBmsPorts)
    /\ lock = [l \in Locks |-> FreeLock]
    /\ inb = NoInbound
    /\ bmsCall = NoCall
    /\ tickLoop = NoTickLoop

SpecPlant == InitPlant /\ [][NextLoops]_vars

\* ------------------------------------------------------------------------
\* Requests in flight: the controllers of the PMS, of PCS1 and of BMS1 and
\* the server threads of the three devices
\* ------------------------------------------------------------------------
\* the lock of a device during its controller's request to a peer, were the
\* whole tick enclosed in "with lock"
call_lock_Held(l) == acquire(l, "controller")

\* the lock of a device during its controller's request to a peer: the with
\* block of step 1 has ended, that of the last step has not begun
call_lock(l) == l

\* read-input-register requests of a client to each of the three devices
PollRequests ==
    { [kind |-> "read", dev |-> dev, function_code |-> 4, address |-> 0,
       count |-> 1, values |-> <<>>, served |-> 0] : dev \in {"PMS", PcsDev, BmsDev} }

\* PCS _tick step 1, then the request to the BMS leaves
PcsAsk ==
    /\ TicksDone + (IF bmsCall.sent THEN 1 ELSE 0) < MaxTicks
    /\ CanAcquire(lock[LockOf(PcsDev)], "controller")
    /\ PcsReadSetpoint
    /\ lock' = [lock EXCEPT ![LockOf(PcsDev)] = call_lock(@)]
    /\ UNCHANGED <<pmsCtl, inb, bmsCall, tickLoop>>

\* the request of the PCS ends: answered by the server thread of the BMS, or
\* not (refused, timed out); PCS _tick steps 3 and 4
PcsAnswer(reached) ==
    /\ reached => CanAcquire(lock[LockOf(BmsDev)], "server")
    /\ CanAcquire(lock[LockOf(PcsDev)], "controller")
    /\ PcsFinishTick(reached)
    /\ lock' = [lock EXCEPT ![LockOf(PcsDev)] = FreeLock]
    /\ UNCHANGED <<pmsCtl, inb, bmsCall, tickLoop>>

\* BMS _loop: dt_s is taken, the request to the PCS leaves
BmsAsk(dt_s) ==
    /\ program = "processes"
    /\ ~bmsCall.sent
    /\ TicksDone + (IF pcsCtl.pc = "read_soc" THEN 1 ELSE 0) < MaxTicks
    /\ bmsCall' = [sent |-> TRUE, dt_s |-> dt_s]
    /\ lock' = [lock EXCEPT ![LockOf(BmsDev)] = call_lock(@)]
    /\ UNCHANGED <<program, codec, stores, reply, pcsCtl, bmsCtl, pmsCtl, inb, tickLoop>>

\* the request of the BMS ends: answered by the server thread of the PCS, or
\* not; BMS _loop steps 2 and 3
BmsAnswer(reached) ==
    /\ bmsCall.sent
    /\ reached => CanAcquire(lock[LockOf(PcsDev)], "server")
    /\ CanAcquire(lock[LockOf(BmsDev)], "controller")
    /\ BmsTick(reached, bmsCall.dt_s)
    /\ bmsCall' = NoCall
    /\ lock' = [lock EXCEPT ![LockOf(BmsDev)] = FreeLock]
    /\ UNCHANGED <<pmsCtl, inb, tickLoop>>

InitPolling == InitLoops

NextPolling ==
    /\ \/ \E req \in PollRequests : InboundArrive(req)
       \/ InboundServe
       \/ PcsAsk
       \/ \E reached \in BOOLEAN : PcsAnswer(reached)
       \/ BmsAsk(LoopInterval.dt_s)
       \/ \E reached \in BOOLEAN : BmsAnswer(reached)
       \/ PmsReadDemand
       \/ \E pcs_outcome \in {"ok", "written", "down"}, bms_reached \in BOOLEAN :
             PmsPollPeer(pcs_outcome, bms_reached)
       \/ PmsBatchEnter
       \/ PmsWriteTotal
       \/ PmsWriteSoc
       \/ PmsWriteSoh
       \/ PmsWriteCapacity
    /\ UNCHANGED hvars

SpecPolling == InitPolling /\ [][NextPolling]_vars

\* ------------------------------------------------------------------------
\* The processes of a PCS and its paired BMS, their servers answering the
\* requests of clients while their controllers tick
\* ------------------------------------------------------------------------
\* the requests of the clients: a read of the first register of each table
\* (values stands for the count), and a write by each write function code
\* to the first and to the last register, of one word or two
ServedRequests ==
    [function_code : ReadCodes, address : {0}, values : {<<0>>}]
    \cup [function_code : WriteCodes, address : {0}, values : {<<18000>>, <<47536, 8>>}]
    \cup [function_code : WriteCodes, address : {9}, values : {<<18000>>}]

InitServed == InitControllers

\* a request of a client served by the server thread of dev
ServeRequest(dev, req) ==
    /\ IF req.function_code \in ReadCodes
       THEN InboundRead(dev, req.function_code, req.address, Len(req.values))
       ELSE InboundWrite(dev, req.function_code, req.address, req.values)
    /\ UNCHANGED <<hvars, cvars>>

NextServed ==
    \/ \E dev \in DOMAIN stores, req \in ServedRequests : ServeRequest(dev, req)
    \/ PcsReadSetpoint /\ UNCHANGED <<hvars, pvars>>
    \/ \E reached \in BOOLEAN : PcsFinishTick(reached) /\ UNCHANGED <<hvars, pvars>>
    \/ \E reached \in BOOLEAN : BmsTick(reached, LoopInterval.dt_s) /\ UNCHANGED <<hvars, pvars>>

SpecServed == InitServed /\ [][NextServed]_vars

\* ------------------------------------------------------------------------
\* Peers in any state: the PMS polls PCS2 and BMS2, servers whose input
\* registers hold any word; the controllers of PCS1 and BMS1 run, and a
\* client has written any power to HR0 of PCS1
\* ------------------------------------------------------------------------
\* the words of PCS2 (IR0) and of BMS2 (IR0, IR1, IR2)
AnyPeerWords ==
    { [PCS2 |-> <<5000>>, BMS2 |-> <<50, 100, 1000>>],
      [PCS2 |-> <<0>>, BMS2 |-> <<0, 0, 0>>],
      [PCS2 |-> <<32767>>, BMS2 |-> <<101, 101, 65535>>],
      [PCS2 |-> <<32768>>, BMS2 |-> <<65535, 65535, 65535>>] }

\* the words a client writes to HR0 of PCS1: 3276.7 kW, -3276.8 kW
AnySetpointWords == {32767, 32768}

\* the seconds between two ticks of the BMS loop
LongInterval == [dt_s |-> 100]

InitAnyPeers ==
    /\ InitNoHandler
    /\ program = "processes"
    /\ \E peers \in AnyPeerWords, word \in AnySetpointWords :
          stores = [dev \in Devices |->
                       IF dev \in DOMAIN peers
                       THEN ctx_setValues(run_server_context(dev), 4, 0, peers[dev]).ctx
                       ELSE IF dev = PcsDev
                       THEN ctx_setValues(run_server_context(dev), 6, 0, <<word>>).ctx
                       ELSE run_server_context(dev)]
    /\ reply = NoReply
    /\ codec = NoCodec
    /\ pcsCtl = NoPcsTick
    /\ bmsCtl = NoBmsTick
    /\ pmsCtl = NoPmsTick(<<"PCS2">>, {"BMS2"})
    /\ lock = [l \in Locks |-> FreeLock]
    /\ inb = NoInbound
    /\ bmsCall = NoCall
    /\ tickLoop = NoTickLoop

\* the loop of the BMS controller, LongInterval.dt_s seconds after the tick
\* before
BmsLongStep ==
    /\ AllTicks < MaxTicks
    /\ \E reached \in BOOLEAN : BmsTick(reached, LongInterval.dt_s)
    /\ UNCHANGED <<hvars, pvars>>

NextAnyPeers == PmsLoopStep \/ PcsLoopStep \/ BmsLongStep

SpecAnyPeers == InitAnyPeers /\ [][NextAnyPeers]_vars

\* ------------------------------------------------------------------------
\* The closed loop of a PCS and its paired BMS: the setpoint a client wrote
\* stays, both servers answer, both controllers tick for ever
\* ------------------------------------------------------------------------
\* the words in HR0 of the PCS: +180 kW, +1800 kW, -1800 kW, -180 kW
HeldSetpointWords == {1800, 18000, 47536, 63736}

\* the seconds between two ticks of the BMS loop
HeldIntervals == {100}

InitClosedLoop ==
    /\ InitNoHandler
    /\ program = "processes"
    /\ \E word \in HeldSetpointWords :
          stores = [dev \in {PcsDev, BmsDev} |->
                       IF dev = PcsDev
                       THEN ctx_setValues(run_server_context(dev), 6, 0, <<word>>).ctx
                       ELSE run_server_context(dev)]
    /\ reply = NoReply
    /\ codec = NoCodec
    /\ pcsCtl = NoPcsTick
    /\ \E dt_s \in HeldIntervals : bmsCtl = [NoBmsTick EXCEPT !.dt_s = dt_s]
    /\ InitNoPms

\* pcs_controller._loop: one tick after the other, the BMS answering
PcsLoopOn ==
    /\ PcsReadSetpoint \/ PcsFinishTick(TRUE)
    /\ UNCHANGED <<hvars, pvars>>

\* bms_controller._loop: one iteration after the other, dt_s apart, the PCS
\* answering
BmsLoopOn ==
    /\ BmsTick(TRUE, bmsCtl.dt_s)
    /\ UNCHANGED <<hvars, pvars>>

\* ticks counts the ticks up to MaxTicks; the loops go on, and the count
\* starts again
TickCountWraps ==
    /\ TicksDone >= MaxTicks
    /\ pcsCtl' = [pcsCtl EXCEPT !.ticks = 0]
    /\ bmsCtl' = [bmsCtl EXCEPT !.ticks = 0]
    /\ UNCHANGED <<hvars, dvars, pvars>>

NextClosedLoop == PcsLoopOn \/ BmsLoopOn \/ TickCountWraps

SpecClosedLoop == InitClosedLoop /\ [][NextClosedLoop]_vars

\* Each loop is the thread of its own process: "while not
\* stop_event.is_set()" with a wait of tick_interval_s between two ticks, and
\* nothing sets the stop event; every request to the peer returns.  Each
\* loop therefore ticks again and again, whatever the other one does.
SpecClosedLoopFair ==
    /\ SpecClosedLoop
    /\ SF_vars(PcsLoopOn)
    /\ SF_vars(BmsLoopOn)
    /\ WF_vars(TickCountWraps)

\* ------------------------------------------------------------------------
\* The scaled codecs called on their own: src/TCP/tcp_servers/tcp_context.py
\* (used by the controllers and by clients/external_client.py) and the class
\* DeviceModel of src/TCP/device.py (used by tick.py).  A power and a capacity
\* are given in the unit of their register (0.1 kW, 0.1 kWh), an SOC and an
\* SOH in tenths of a percent.
\* ------------------------------------------------------------------------
\* the two modules and the four quantities they encode
CodecModules == {"tcp_context", "DeviceModel"}
Quantities == {"power", "soc", "soh", "capacity"}

\* the encoder of quantity in module, applied to value
codec_encode(module, quantity, value) ==
    IF module = "tcp_context"
    THEN CASE quantity = "power" -> Returned(encode_power_kw(value))
           [] quantity = "soc" -> Returned(encode_soc(value * (SocScale \div 10)))
           [] quantity = "soh" -> Returned(encode_soh_mean(value, 10))
           [] quantity = "capacity" -> Returned(encode_capacity_kwh(value))
    ELSE CASE quantity = "power" -> DeviceModel_encode_power_kw(value)
           [] quantity \in {"soc", "soh"} ->
                Returned(DeviceModel_encode_scaled_uint16(value, 10, 0, 100))
           [] quantity = "capacity" ->
                Returned(DeviceModel_encode_scaled_uint16(value, 1, 0, 65535))

\* the decoder of quantity, the same in both modules: the word masked to 16
\* bits, read as signed for a power, times the scale
codec_decode(module, quantity, reg_u16) ==
    CASE quantity = "power" -> decode_power_kw(reg_u16)
      [] quantity = "soc" -> 10 * decode_soc(reg_u16)
      [] quantity = "soh" -> 10 * decode_soh(reg_u16)
      [] quantity = "capacity" -> decode_capacity_kwh(reg_u16)

\* the values given to the encoders: every power a register can hold and the
\* powers around it that wrap into it, percentages below 0 and above 100,
\* capacities up to the sum of two full registers
PowerValues == -(65536 + CodecMargin)..(65536 + CodecMargin)
PercentValues == -CodecMargin..(1000 + CodecMargin)
CapacityValues == -CodecMargin..(2 * 65535 + CodecMargin)

CodecValues(quantity) ==
    CASE quantity = "power" -> PowerValues
      [] quantity \in {"soc", "soh"} -> PercentValues
      [] quantity = "capacity" -> CapacityValues

\* a value to encode and then decode, or a power register word to decode and
\* then encode
InitCodecs ==
    /\ InitNoHandler
    /\ program = "codecs"
    /\ stores = [dev \in {"PMS"} |-> run_server_context(dev)]
    /\ reply = NoReply
    /\ InitNoControllers
    /\ \E module \in CodecModules :
          \/ \E quantity \in Quantities : \E value \in CodecValues(quantity) :
                codec = [NoCodec EXCEPT !.module = module, !.quantity = quantity,
                                        !.first = "encode", !.input = value]
          \/ \E reg_u16 \in 0..65535 :
                codec = [NoCodec EXCEPT !.module = module, !.quantity = "power",
                                        !.first = "decode", !.input = reg_u16]

\* encode_*(value) of the input, or of the value decoded from it
CodecEncode ==
    /\ program = "codecs"
    /\ \/ codec.first = "encode" /\ codec.steps = 0
       \/ codec.first = "decode" /\ codec.steps = 1
    /\ LET value == IF codec.steps = 0 THEN codec.input ELSE codec.mid
           rr == codec_encode(codec.module, codec.quantity, value)
       IN  codec' = IF codec.steps = 0
                    THEN [codec EXCEPT !.steps = 1, !.raised = rr.raised, !.mid = rr.word]
                    ELSE [codec EXCEPT !.steps = 2, !.raised = rr.raised, !.out = rr.word]
    /\ UNCHANGED <<hvars, program, stores, reply, cvars>>

\* decode_*(reg_u16) of the input, or of the word encoded from it
CodecDecode ==
    /\ program = "codecs"
    /\ \/ codec.first = "decode" /\ codec.steps = 0
       \/ codec.first = "encode" /\ codec.steps = 1 /\ ~codec.raised
    /\ LET reg_u16 == IF codec.steps = 0 THEN codec.input ELSE codec.mid
           value == codec_decode(codec.module, codec.quantity, reg_u16)
       IN  codec' = IF codec.steps = 0
                    THEN [codec EXCEPT !.steps = 1, !.mid = value]
                    ELSE [codec EXCEPT !.steps = 2, !.out = value]
    /\ UNCHANGED <<hvars, program, stores, reply, cvars>>

\* external_client.write_pms_demand(host, port, kw): the demand is encoded
\* and written to HR0 of the PMS
write_pms_demand ==
    /\ program = "codecs"
    /\ codec.module = "tcp_context" /\ codec.quantity = "power"
    /\ codec.first = "encode" /\ codec.steps = 0
    /\ LET u16 == encode_power_kw(codec.input)
           rr == ctx_setValues(stores["PMS"], 6, 0, <<u16>>)
       IN  /\ codec' = [codec EXCEPT !.steps = 1, !.mid = u16]
           /\ stores' = [stores EXCEPT !["PMS"] = rr.ctx]
    /\ UNCHANGED <<hvars, program, reply, cvars>>

NextCodecs == CodecEncode \/ CodecDecode \/ write_pms_demand

SpecCodecs == InitCodecs /\ [][NextCodecs]_vars

\* ------------------------------------------------------------------------
\* Frame reassembly (C1..C3)
\* ------------------------------------------------------------------------
\* the frames the drain loop extracts from a stream that arrives in one read
RECURSIVE FramesOf(_)
FramesOf(stream) ==
    LET ff == frame_from_stream_buffer(stream)
    IN  IF ff.ok THEN <<ff.frame>> \o FramesOf(ff.rest) ELSE <<>>

\* a buffer that starts with a complete frame: 6 header bytes and 6 + length
\* bytes in all, length being the big-endian uint16 at offset 4
LengthField(b) == b[5] * 256 + b[6]
HoldsCompleteFrame(b) ==
    /\ Len(b) >= 6
    /\ Len(b) >= 6 + LengthField(b)

\* C1: whatever the chunk boundaries of the reads, once the drain loop has run
\* the frames extracted so far are those extracted from the same bytes
\* arriving in one single read.
C1_ChunkingIndependent ==
    \A c \in Conns : pc[c] # "drain" => frames[c] = FramesOf(recvd[c])

\* C1 witness: a frame has been extracted, a cut inside the next frame has
\* left a partial frame in the buffer, and more bytes are still to come.
C1_Witness ==
    /\ pc["c1"] = "recv"
    /\ Len(frames["c1"]) >= 1
    /\ buf["c1"] # <<>>
    /\ wire["c1"] # <<>>

\* C2: frame_from_stream_buffer emits a frame iff the buffer holds a complete
\* frame; the frame is the first 6 + length bytes and the remainder is the
\* rest; otherwise nothing is emitted and the buffer is unchanged. After the
\* drain loop the residual buffer holds no complete frame.
C2_FrameExtraction ==
    \A c \in Conns :
        /\ last[c].kind \in {"nofrm", "parse_err", "served"} =>
              LET b == last[c].bufBefore
              IN  /\ (last[c].kind # "nofrm") <=> HoldsCompleteFrame(b)
                  /\ last[c].kind # "nofrm" =>
                        /\ Len(last[c].frame) = 6 + LengthField(b)
                        /\ b = last[c].frame \o last[c].rest
                  /\ last[c].kind = "nofrm" =>
                        /\ last[c].frame = <<>>
                        /\ last[c].rest = b
                  /\ buf[c] = last[c].rest
        /\ pc[c] = "recv" => ~HoldsCompleteFrame(buf[c])

\* C2 witness: a frame was extracted and the drain loop stopped on the
\* partial frame behind it, whose header had arrived but not all of its body.
C2_Witness ==
    /\ last["c1"].kind = "nofrm"
    /\ Len(frames["c1"]) >= 1
    /\ Len(buf["c1"]) >= 6
    /\ Len(buf["c1"]) < 6 + LengthField(buf["c1"])

\* C3: the frames emitted so far followed by the residual buffer are exactly
\* the bytes received so far, in order, also across receive timeouts.
C3_BytesConserved ==
    \A c \in Conns : recvd[c] = Concat(frames[c]) \o buf[c]

\* C3 witness: a receive timeout with a partial frame in the buffer, after a
\* frame has been emitted.
C3_Witness ==
    /\ last["c1"].kind = "timeout"
    /\ buf["c1"] # <<>>
    /\ frames["c1"] # <<>>

\* ------------------------------------------------------------------------
\* Write then read back (C4)
\* ------------------------------------------------------------------------
\* word i (from 0) of a normal read response
ReadWord(resp, i) == resp[10 + 2 * i] * 256 + resp[11 + 2 * i]

IsNormalRead(l) ==
    /\ l.kind = "served"
    /\ ~l.dropped
    /\ l.req.function_code = 3
    /\ l.resp[8] = 3

\* client c has just read a range holding the address of its latest answered
\* write, and no client has written that address since
ReadsBackOwnWrite(c) ==
    /\ IsNormalRead(last[c])
    /\ pend[c].valid
    /\ pend[c].address >= last[c].req.address
    /\ pend[c].address < last[c].req.address + last[c].req.value_or_count

ReadBackValue(c) == ReadWord(last[c].resp, pend[c].address - last[c].req.address)

\* C4 as claimed: a read following an answered write of v to a returns v, at
\* every address, as long as no client writes a in between.
C4_ReadBackEveryAddress ==
    \A c \in Conns : ReadsBackOwnWrite(c) => ReadBackValue(c) = pend[c].value

\* C4 amended: the same, as long as neither a client nor the background
\* updater (which increments register 1) has written a in between.
C4_ReadBackUnlessUpdated ==
    \A c \in Conns :
        ReadsBackOwnWrite(c) /\ ~pend[c].bg => ReadBackValue(c) = pend[c].value

\* C4 witness: the background updater has run and a client reads back its own
\* write of a register the updater does not touch.
C4_Witness ==
    /\ bgSteps >= 1
    /\ ReadsBackOwnWrite("c1")
    /\ ~pend["c1"].bg
    /\ pend["c1"].address = 199

\* ------------------------------------------------------------------------
\* Responses of the connection handler (C5, C6, C8, C9)
\* ------------------------------------------------------------------------
\* the MBAP header of the answer to req with n bytes after the unit id
ExpectedHeader(req, n) ==
    <<req.transaction_id \div 256, req.transaction_id % 256, 0, 0,
      (1 + n) \div 256, (1 + n) % 256, req.unit_id>>

\* the big-endian words of registers address .. address + count - 1
ExpectedWords(h, address, count) ==
    [i \in 1..(2 * count) |->
        IF i % 2 = 1 THEN h[address + (i - 1) \div 2] \div 256
                     ELSE h[address + (i - 2) \div 2] % 256]

ExpectedReadResponse(req, h) ==
    ExpectedHeader(req, 2 + 2 * req.value_or_count)
        \o <<3, 2 * req.value_or_count>>
        \o ExpectedWords(h, req.address, req.value_or_count)

ExpectedException(req, code) ==
    ExpectedHeader(req, 2)
        \o <<IF req.function_code < 128 THEN req.function_code + 128
             ELSE req.function_code, code>>

\* the response of the latest request was sent whole, in one send, as the
\* newest payload of the connection
SentWhole(c) ==
    /\ ~last[c].dropped
    /\ last[c].chunks = <<last[c].resp>>
    /\ out[c] # <<>>
    /\ out[c][Len(out[c])] = last[c].resp

InRangeRead(req) ==
    /\ req.function_code = 3
    /\ req.value_or_count >= 1
    /\ req.address + req.value_or_count <= HoldingSize

\* C5 as claimed: every read of holding registers with count >= 1 and
\* address + count <= 200 gets the normal response: function code 3, byte
\* count 2 * count, then the count words in address order, big-endian.
C5_ReadAnsweredEveryCount ==
    \A c \in Conns :
        last[c].kind = "served" /\ InRangeRead(last[c].req) =>
            last[c].resp = ExpectedReadResponse(last[c].req, holding)

\* C5 amended: that holds for counts 1..127; for counts 128..200 the byte
\* count does not fit its byte and the answer is exception code 2.
C5_ReadAnsweredUpTo127 ==
    \A c \in Conns :
        last[c].kind = "served" /\ InRangeRead(last[c].req) =>
            /\ SentWhole(c)
            /\ last[c].delta = {}
            /\ IF last[c].req.value_or_count <= 127
               THEN last[c].resp = ExpectedReadResponse(last[c].req, holding)
               ELSE last[c].resp = ExpectedException(last[c].req, 2)

\* C5 witness: a read of 127 registers answered after a write that changed
\* a register.
C5_Witness ==
    /\ last["c1"].kind = "served"
    /\ InRangeRead(last["c1"].req)
    /\ last["c1"].req.value_or_count = 127
    /\ Len(last["c1"].resp) = 9 + 2 * 127
    /\ holding[1] = 258

OutOfRange(req) ==
    \/ /\ req.function_code = 3
       /\ \/ req.value_or_count <= 0
          \/ req.address + req.value_or_count > HoldingSize
    \/ /\ req.function_code = 6
       /\ req.address + 1 > HoldingSize

\* C6: every read or write with a range outside the bank is answered with the
\* exception frame function_code | 0x80, code 2; it changes no register and
\* the handler goes on with the connection.
C6_OutOfRangeException ==
    \A c \in Conns :
        last[c].kind = "served" /\ OutOfRange(last[c].req) =>
            /\ last[c].resp = ExpectedException(last[c].req, 2)
            /\ SentWhole(c)
            /\ last[c].delta = {}
            /\ ~last[c].closed
            /\ pc[c] = "drain"

\* C6 witness: an out-of-range request got its exception and the request
\* behind it on the same connection was then served normally.
C6_Witness ==
    /\ Len(out["c1"]) = 2
    /\ Len(frames["c1"]) = 2
    /\ OutOfRange(parse_request_pdu(frames["c1"][1]))
    /\ out["c1"][1][9] = 2
    /\ IsNormalRead(last["c1"])

\* a complete frame whose protocol id is not 0 or that has fewer than 5 PDU
\* bytes behind the unit id
FailsParsing(frame) ==
    \/ frame[3] * 256 + frame[4] # 0
    \/ Len(frame) - 7 < 5

RECURSIVE CountParsed(_)
CountParsed(fs) ==
    IF fs = <<>> THEN 0
    ELSE (IF FailsParsing(Head(fs)) THEN 0 ELSE 1) + CountParsed(Tail(fs))

\* the bank after the writes of the frames that parse, in order
RECURSIVE BankAfter(_, _)
BankAfter(h, fs) ==
    IF fs = <<>> THEN h
    ELSE LET f == Head(fs)
             isWrite == ~FailsParsing(f) /\ f[8] = 6
                            /\ (f[9] * 256 + f[10]) < HoldingSize
         IN  BankAfter(IF isWrite
                       THEN [h EXCEPT ![f[9] * 256 + f[10]] = f[11] * 256 + f[12]]
                       ELSE h,
                       Tail(fs))

\* C8: a complete frame that fails parsing gets no response and changes no
\* register, the connection stays in its drain loop, and the frames behind
\* it are served: the responses sent are one per frame that parses, and the
\* bank holds the writes of exactly those frames.
C8_ParseErrorSkipped ==
    \A c \in Conns :
        /\ last[c].kind \in {"parse_err", "served"} =>
              /\ (last[c].kind = "parse_err") <=> FailsParsing(last[c].frame)
              /\ pc[c] = "drain"
        /\ last[c].kind = "parse_err" => last[c].chunks = <<>> /\ last[c].delta = {}
        /\ Len(out[c]) = CountParsed(frames[c])
        /\ c = "c1" => holding = BankAfter(HoldingInit, frames[c])

\* C8 witness: the first frame failed parsing and the write behind it was
\* served and answered.
C8_Witness ==
    /\ Len(frames["c1"]) = 2
    /\ FailsParsing(frames["c1"][1])
    /\ last["c1"].kind = "served"
    /\ last["c1"].req.function_code = 6
    /\ Len(out["c1"]) = 1
    /\ holding[1] = 258

\* C9: a well-formed request whose function code is none of the modeled ones
\* (3, 4, 6) is answered with the exception frame function_code | 0x80,
\* code 1, and changes no register.
C9_IllegalFunction ==
    \A c \in Conns :
        last[c].kind = "served" /\ last[c].req.function_code \notin {3, 4, 6} =>
            /\ last[c].resp = ExpectedException(last[c].req, 1)
            /\ SentWhole(c)
            /\ last[c].delta = {}
            /\ holding = BankAfter(HoldingInit, frames[c])

\* C9 witness: function code 16 answered with 0x90, code 1.
C9_Witness ==
    /\ last["c1"].kind = "served"
    /\ last["c1"].req.function_code = 16
    /\ last["c1"].resp[8] = 144
    /\ last["c1"].resp[9] = 1

\* ------------------------------------------------------------------------
\* Unsupported tables (C7)
\* ------------------------------------------------------------------------
\* the hr_size a device is built with
BuiltHrSize(dev) ==
    IF program = "monolith" THEN DEVICES[dev].hr_size
    ELSE IF dev \in {"BMS1", "BMS2"} THEN 0 ELSE 10

\* the coil and discrete-input tables of every device, and the holding
\* table of a device built with hr_size = 0
Unsupported(dev, table) ==
    \/ table \in {"c", "d"}
    \/ table = "h" /\ BuiltHrSize(dev) = 0

\* C7: an unsupported table answers every read and every write, at every
\* address, with the illegal-address code, and nothing a request does
\* changes what it holds.
C7_UnsupportedTableRejects ==
    /\ reply.dev # "none" /\ Unsupported(reply.dev, decode(reply.function_code)) =>
          /\ reply.exc = 2
          /\ reply.values = <<>>
    /\ \A dev \in DOMAIN stores : \A table \in {"c", "d", "h"} :
          Unsupported(dev, table) =>
              /\ stores[dev][table].kind = "reject"
              /\ stores[dev][table].values = [a \in 0..0 |-> 0]

\* C7 witness: a write of holding register 0 of a BMS was rejected, in a
\* server where a write to the PMS's supported holding table had gone through.
C7_Witness ==
    /\ reply.dev \in {"BMS1", "BMS2"}
    /\ reply.function_code = 6
    /\ reply.address = 0
    /\ reply.exc = 2
    /\ "PMS" \in DOMAIN stores
    /\ stores["PMS"].h.values[0] = 65535

\* ------------------------------------------------------------------------
\* Function codes served (C10)
\* ------------------------------------------------------------------------
\* either program: the connection handler with one client, or the device
\* servers
InitInbound == Init \/ InitDevices

NextInbound ==
    \/ program = "server" /\ Next
    \/ program # "server" /\ NextDevices

SpecInbound == InitInbound /\ [][NextInbound]_vars

\* a request the handler's bank can serve: a read of 1..127 registers or a
\* single write, inside the bank
Servable(req) ==
    /\ req.address + (IF req.function_code = 6 THEN 1 ELSE req.value_or_count)
          <= HoldingSize
    /\ req.function_code # 6 => req.value_or_count \in 1..127

\* the device servers route function codes 3 and 6 to the holding bank and
\* function code 4 to the input bank, words taken at the request's address
DevicesServeThreeCodes ==
    reply.dev # "none" /\ reply.function_code \in {3, 4, 6} =>
        LET bank == stores[reply.dev][IF reply.function_code = 4 THEN "i" ELSE "h"]
            inside == bank.kind = "locked"
                        /\ reply.address + reply.count
                              <= Cardinality(DOMAIN bank.values)
        IN  /\ inside <=> reply.exc = 0
            /\ inside => reply.values =
                  [k \in 1..reply.count |-> bank.values[reply.address + k - 1]]

\* C10 as claimed: the inbound interface serves function codes 3, 4 and 6,
\* and a read of input registers is answered like a read of holding
\* registers, with register words.
C10_ThreeCodesServed ==
    /\ \A c \in Conns :
          last[c].kind = "served" /\ last[c].req.function_code \in {3, 4, 6}
              /\ Servable(last[c].req)
          => last[c].resp[8] = last[c].req.function_code
    /\ DevicesServeThreeCodes

\* C10 amended: the device servers serve the three codes, function code 4
\* from the input bank; the connection handler of server.py serves function
\* codes 3 and 6 only and answers function code 4 with exception code 1.
C10_HandlerServesTwoCodes ==
    /\ \A c \in Conns :
          last[c].kind = "served" /\ Servable(last[c].req) =>
              /\ last[c].req.function_code \in {3, 6}
                    => last[c].resp[8] = last[c].req.function_code
              /\ last[c].req.function_code = 4
                    => last[c].resp = ExpectedException(last[c].req, 1)
                       /\ last[c].delta = {}
    /\ DevicesServeThreeCodes

\* C10 witness: a device process answered a read of input registers with
\* the words of its input bank.
C10_Witness ==
    /\ program = "processes"
    /\ reply.dev \in {"BMS1", "BMS2"}
    /\ reply.function_code = 4
    /\ reply.address = 0
    /\ reply.values = <<50, 100>>

\* ------------------------------------------------------------------------
\* Built frames (C11)
\* ------------------------------------------------------------------------
\* C11: every frame the handler builds with build_response_adu or
\* build_exception_adu echoes the transaction id and the unit id of the
\* request, has protocol id 0 and a length field equal to the number of bytes
\* behind the 6-byte header; frame_from_stream_buffer gives it back whole
\* with an empty remainder.
C11_BuiltFrameWellFormed ==
    \A c \in Conns :
        last[c].kind = "served" =>
            LET r  == last[c].resp
                q  == last[c].req
                ff == frame_from_stream_buffer(r)
            IN  /\ Len(r) >= 9
                /\ UnpackH(r[1], r[2]) = q.transaction_id
                /\ UnpackH(r[3], r[4]) = 0
                /\ UnpackH(r[5], r[6]) = Len(r) - 6
                /\ r[7] = q.unit_id
                /\ ff.ok /\ ff.frame = r /\ ff.rest = <<>>

\* C11 witness: the answer to a read of 127 registers, whose length field
\* (257) needs both of its bytes.
C11_Witness ==
    /\ last["c1"].kind = "served"
    /\ last["c1"].req.function_code = 3
    /\ Len(last["c1"].resp) = 263
    /\ last["c1"].resp[5] = 1
    /\ last["c1"].resp[6] = 1

\* ------------------------------------------------------------------------
\* Fault injection (C12..C16)
\* ------------------------------------------------------------------------
\* the responses of a handler that has no fault injector: one per frame that
\* parses, each sent whole
RECURSIVE ResponsesOf(_, _)
ResponsesOf(h, fs) ==
    IF fs = <<>> THEN <<>>
    ELSE LET req == parse_request_pdu(Head(fs))
         IN  IF ~req.ok THEN ResponsesOf(h, Tail(fs))
             ELSE LET ex == Execute(h, req)
                  IN  <<ex.resp>> \o ResponsesOf(ex.holding, Tail(fs))

\* C12: with the fault profile of src/server.py (no delay, no drop, no close,
\* chunk range [1, 1]) every response is sent whole in one send, none is
\* dropped and the handler never closes the connection on its own: the sends
\* are those of a handler without fault injector.
C12_DisabledIsPassThrough ==
    \A c \in Conns :
        /\ last[c].kind = "served" =>
              /\ ~last[c].dropped
              /\ ~last[c].closed
              /\ last[c].chunks = <<last[c].resp>>
        /\ c = "c1" => out[c] = ResponsesOf(HoldingInit, frames[c])
        /\ c = "c1" /\ pc[c] = "closed" => last[c].kind = "eof"
        /\ pc[c] # "crashed"

\* C12 witness: a write and a read that arrived in one stream were both
\* answered, the read with the value the write had stored.
C12_Witness ==
    /\ FAULTS = ServerFaults
    /\ Len(out["c1"]) = 2
    /\ last["c1"].kind = "served"
    /\ last["c1"].req.function_code = 3
    /\ last["c1"].req.address = 1
    /\ ReadWord(last["c1"].resp, 0) = 258

\* C13: whatever the fault profile, the fragments of a response that is sent
\* are all non-empty, are the newest sends of the connection in their order,
\* and concatenated give the response byte for byte.
C13_FragmentsAreTheResponse ==
    \A c \in Conns :
        last[c].kind = "served" /\ ~last[c].dropped =>
            LET cs == last[c].chunks
                n  == Len(out[c])
            IN  /\ \A i \in 1..Len(cs) : cs[i] # <<>>
                /\ Concat(cs) = last[c].resp
                /\ n >= Len(cs)
                /\ SubSeq(out[c], n - Len(cs) + 1, n) = cs

\* C13 witness: a 9-byte response cut for 11 fragments, sent as 9 fragments
\* of one byte after the empty ones were filtered out.
C13_Witness ==
    /\ last["c1"].kind = "served"
    /\ FAULTS.chunk_min = 11
    /\ Len(last["c1"].resp) = 9
    /\ Len(last["c1"].chunks) = 9

\* C14 as claimed: for a response that is sent and a profile with
\* 1 <= chunk_min <= chunk_max the number of fragments is in
\* [chunk_min, chunk_max].
C14_FragmentCountInRange ==
    \A c \in Conns :
        (/\ last[c].kind = "served" /\ ~last[c].dropped
         /\ 1 <= FAULTS.chunk_min /\ FAULTS.chunk_min <= FAULTS.chunk_max)
        => /\ Len(last[c].chunks) >= FAULTS.chunk_min
           /\ Len(last[c].chunks) <= FAULTS.chunk_max

\* C14 amended: the number of fragments is in
\* [min(chunk_min, len(response)), chunk_max]: a response shorter than
\* chunk_min bytes cannot be cut into chunk_min non-empty fragments.
C14_FragmentCountUpToLength ==
    \A c \in Conns :
        (/\ last[c].kind = "served" /\ ~last[c].dropped
         /\ 1 <= FAULTS.chunk_min /\ FAULTS.chunk_min <= FAULTS.chunk_max)
        => /\ Len(last[c].chunks) >= Min(FAULTS.chunk_min, Len(last[c].resp))
           /\ Len(last[c].chunks) <= FAULTS.chunk_max

\* C14 witness: a 12-byte response sent in 11 fragments under chunk range
\* [11, 11].
C14_Witness ==
    /\ last["c1"].kind = "served"
    /\ ~last["c1"].dropped
    /\ FAULTS.chunk_min = 11
    /\ Len(last["c1"].resp) = 12
    /\ Len(last["c1"].chunks) = 11

\* the handler of connection c takes a step
HandlerStep(c) == last'[c] # last[c] \/ pc'[c] # pc[c]

\* C15: a step in which the drop check triggers has executed the request (the
\* bank is the one the request leaves), sends nothing, and leaves the
\* connection open in its drain loop; the handler's next step then takes the
\* next complete frame of the buffer, if there is one.
C15_DropOnResponsePathOnly ==
    [][\A c \in Conns :
          /\ HandlerStep(c) /\ last'[c].kind = "served" /\ last'[c].dropped =>
                /\ holding' = Execute(holding, last'[c].req).holding
                /\ last'[c].delta = Changed(holding, holding')
                /\ out'[c] = out[c]
                /\ pc'[c] = "drain"
          /\ (/\ last[c].kind = "served" /\ last[c].dropped
              /\ HoldsCompleteFrame(buf[c]) /\ HandlerStep(c)) =>
                /\ frames'[c] = Append(frames[c], Slice(buf[c], 1, 6 + LengthField(buf[c])))
                /\ last'[c].kind \in {"served", "parse_err", "raised"}
                /\ last'[c].frame = frames'[c][Len(frames'[c])]
      ]_vars

\* C15 witness: a write was dropped after it had changed register 1, and the
\* read behind it in the buffer was then served with the written value.
C15_Witness ==
    /\ FAULTS.drop_rate > 0
    /\ Len(frames["c1"]) = 2
    /\ out["c1"] = <<last["c1"].resp>>
    /\ last["c1"].kind = "served"
    /\ last["c1"].req.function_code = 3
    /\ ~last["c1"].dropped
    /\ ReadWord(last["c1"].resp, 0) = 258

\* C16: a step in which the forced-close check triggers has sent all the
\* fragments of its response and closes the connection; from then on nothing
\* is executed or answered on that connection: bank, sends, frames and buffer
\* stay as they are, also when complete frames wait in the buffer.
C16_CloseAfterSending ==
    [][\A c \in Conns :
          /\ HandlerStep(c) /\ last'[c].kind = "served" /\ last'[c].closed =>
                /\ out'[c] = out[c] \o last'[c].chunks
                /\ Concat(last'[c].chunks) = last'[c].resp
                /\ pc'[c] = "closed"
          /\ last[c].kind = "served" /\ last[c].closed =>
                /\ ~HandlerStep(c)
                /\ UNCHANGED <<holding, out, frames, buf, pend>>
      ]_vars

\* C16 witness: the connection was closed after the answer to a first request
\* while a second complete frame waited in the buffer.
C16_Witness ==
    /\ pc["c1"] = "closed"
    /\ last["c1"].kind = "served"
    /\ last["c1"].closed
    /\ Len(out["c1"]) >= 1
    /\ Len(frames["c1"]) = 1
    /\ HoldsCompleteFrame(buf["c1"])

\* ------------------------------------------------------------------------
\* Controllers of the device processes (C17..C20)
\* ------------------------------------------------------------------------
\* a register word read as a signed 16-bit number
Signed(word) == IF word >= 32768 THEN word - 65536 ELSE word

Ir0(ss, dev) == ss[dev].i.values[0]

\* the PCS controller finishes a tick in this step
PcsTickEnds == pcsCtl'.ticks = pcsCtl.ticks + 1

\* the BMS controller runs an iteration of its loop in this step
BmsTickEnds == bmsCtl'.ticks = bmsCtl.ticks + 1

\* C17: a PCS tick takes its setpoint from HR0 and writes to IR0 the word 0
\* when the SOC it observed is <= 0 and the setpoint is positive, 0 when that
\* SOC is >= 100 and the setpoint is negative, and the setpoint it read in
\* that tick in every other case; the SOC is the paired BMS's IR0 unless the
\* read failed.
C17_PcsClamp ==
    [][/\ pcsCtl.pc = "idle" /\ pcsCtl'.pc = "read_soc" =>
             pcsCtl'.setpoint_u16 = stores[PcsDev].h.values[0]
       /\ PcsTickEnds =>
             LET sp  == pcsCtl.setpoint_u16
                 soc == IF pcsCtl'.failed THEN pcsCtl'.soc ELSE Ir0(stores, BmsDev)
             IN  /\ pcsCtl'.soc = soc
                 /\ Ir0(stores', PcsDev) =
                       IF soc <= 0 /\ Signed(sp) > 0 THEN 0
                       ELSE IF soc >= 100 /\ Signed(sp) < 0 THEN 0
                       ELSE sp
      ]_vars

\* C17 witness: with the BMS at SOC 0 a tick read the setpoint +1800 kW and
\* wrote 0 to IR0, after an earlier tick had written the setpoint itself.
C17_Witness ==
    /\ pcsCtl.ticks = 2
    /\ pcsCtl.pc = "idle"
    /\ ~pcsCtl.failed
    /\ pcsCtl.soc = 0
    /\ pcsCtl.setpoint_u16 = 18000
    /\ Ir0(stores, PcsDev) = 0
    /\ bmsCtl.power = 1800 * 10

\* C18: a PCS tick whose read of the paired BMS's SOC fails still ends in
\* that step: it goes on with the fallback SOC of 50 percent, applies the
\* clamp rule to it (which leaves every setpoint as it is) and writes IR0.
C18_PcsFallback ==
    [][pcsCtl.pc = "read_soc" /\ pcsCtl' # pcsCtl /\ pcsCtl'.failed =>
          /\ PcsTickEnds
          /\ pcsCtl'.pc = "idle"
          /\ pcsCtl'.soc = FallbackSoc
          /\ pcsCtl'.written = pcsCtl.setpoint_u16
          /\ Ir0(stores', PcsDev) = pcsCtl.setpoint_u16
      ]_vars

\* C18 witness: the BMS stood at SOC 0, the read of it failed, and the tick
\* wrote the discharge setpoint +1800 kW to IR0.
C18_Witness ==
    /\ pcsCtl.ticks = 2
    /\ pcsCtl.failed
    /\ pcsCtl.soc = FallbackSoc
    /\ Ir0(stores, BmsDev) = 0
    /\ pcsCtl.setpoint_u16 = 18000
    /\ Ir0(stores, PcsDev) = 18000

\* the SOC accumulator a BMS iteration must leave: the one before minus
\* power * dt / (capacity * 3600) * 100 percent, clamped to [0, 100]
IntegratedSoc(soc_float, power, dt_s) ==
    LET x == soc_float - power * dt_s
    IN  IF x < 0 THEN 0 ELSE IF x > 100 * SocScale THEN 100 * SocScale ELSE x

\* word is soc_float rounded to a whole percent
IsRounded(word, soc_float) ==
    /\ 2 * (word * SocScale - soc_float) <= SocScale
    /\ 2 * (soc_float - word * SocScale) <= SocScale

\* the power a BMS iteration works with: the paired PCS's IR0, or 0 when the
\* read failed
PowerSeen == IF bmsCtl'.failed THEN 0 ELSE Signed(Ir0(stores, PcsDev))

\* the iteration of the example: capacity 100 kWh, +36 kW, 10 s, SOC 50
IsExampleTick ==
    /\ BmsTickEnds
    /\ CapacityKwh = 100
    /\ bmsCtl.soc_float = 50 * SocScale
    /\ PowerSeen = 36 * 10
    /\ bmsCtl'.dt_s = 10

\* every BMS iteration integrates and writes the rounded SOC to IR0
BmsIntegrates ==
    BmsTickEnds =>
        /\ bmsCtl'.soc_float = IntegratedSoc(bmsCtl.soc_float, PowerSeen, bmsCtl'.dt_s)
        /\ IsRounded(Ir0(stores', BmsDev), bmsCtl'.soc_float)

\* C19 as claimed: the accumulator becomes
\* clamp(soc - (power * dt) / (capacity * 3600) * 100, 0, 100), IR0 gets it
\* rounded to a whole percent, and for capacity 100 kWh, +36 kW, 10 s and
\* SOC 50 the result is 49.
C19_IntegrationGives49 ==
    [][/\ BmsIntegrates
       /\ IsExampleTick =>
             /\ bmsCtl'.soc_float = 49 * SocScale
             /\ Ir0(stores', BmsDev) = 49
      ]_vars

\* C19 amended: the same integration and rounding; for capacity 100 kWh,
\* +36 kW, 10 s and SOC 50 the accumulator becomes 49.9 and IR0 is written
\* with 50.
C19_IntegrationGives49_9 ==
    [][/\ BmsIntegrates
       /\ IsExampleTick =>
             /\ 10 * bmsCtl'.soc_float = 499 * SocScale
             /\ Ir0(stores', BmsDev) = 50
      ]_vars

\* C19 witness: the iteration of the example has run.
C19_Witness ==
    /\ bmsCtl.ticks >= 1
    /\ ~bmsCtl.failed
    /\ bmsCtl.before = 50 * SocScale
    /\ bmsCtl.power = 36 * 10
    /\ bmsCtl.dt_s = 10
    /\ bmsCtl.written = 50
    /\ Ir0(stores, BmsDev) = 50

\* C20: a BMS iteration whose read of the paired PCS's active power fails
\* works with zero power: the accumulator and the SOC register keep their
\* values, IR0 is written all the same, and the iteration ends like any other.
C20_BmsZeroPowerOnFailure ==
    [][bmsCtl' # bmsCtl /\ bmsCtl'.failed =>
          /\ BmsTickEnds
          /\ bmsCtl'.power = 0
          /\ bmsCtl'.soc_float = bmsCtl.soc_float
          /\ bmsCtl'.written = Ir0(stores, BmsDev)
          /\ Ir0(stores', BmsDev) = Ir0(stores, BmsDev)
      ]_vars

\* C20 witness: after an iteration had lowered the SOC to 45 percent, the
\* read failed 100 s later while the PCS delivered +1800 kW, and the SOC
\* stayed at 45.
C20_Witness ==
    /\ bmsCtl.ticks = 2
    /\ bmsCtl.failed
    /\ bmsCtl.dt_s = 100
    /\ Ir0(stores, PcsDev) = 18000
    /\ bmsCtl.soc_float = 45 * SocScale
    /\ Ir0(stores, BmsDev) = 45

\* ------------------------------------------------------------------------
\* The SOC accumulator (C21)
\* ------------------------------------------------------------------------
\* word is value, in scale-ths of a percent, rounded to a whole percent
IsRoundedTo(word, value, scale) ==
    /\ 2 * (word * scale - value) <= scale
    /\ 2 * (value - word * scale) <= scale

\* the SOC change of one tick is below half a percent and not zero
SubUnit(change, scale) == change # 0 /\ 2 * change < scale /\ 2 * change > -scale

\* the BMS process: power and interval are those of the start
BmsSteadyChange == Signed(Ir0(stores, PcsDev)) * bmsCtl.dt_s

\* the monolith: demand and interval are those of the start
MonoSteadyChange == Signed(stores["PMS"].h.values[0]) * tickLoop.dt_s

\* after k ticks the accumulator is the initial SOC plus k times the change
\* of a tick, and the SOC register holds it rounded
AccumulatorAfterTicks ==
    /\ program = "processes" /\ SubUnit(BmsSteadyChange, SocScale) =>
          /\ bmsCtl.soc_float = InitSoc * SocScale - bmsCtl.ticks * BmsSteadyChange
          /\ IsRoundedTo(Ir0(stores, BmsDev), bmsCtl.soc_float, SocScale)
    /\ program = "monolith" /\ SubUnit(MonoSteadyChange, MonoScale) =>
          \A k \in 1..Len(PcsUids) :
             LET bms == PCS_TO_BMS[PcsUids[k]]
                 soc == InitSoc * MonoScale - tickLoop.ticks * MonoSteadyChange
             IN  /\ bms \in DOMAIN tickLoop.float_state => tickLoop.float_state[bms].soc = soc
                 /\ IsRoundedTo(Ir0(stores, bms), soc, MonoScale)

\* the SOC register has left its initial value
SocRegisterChanged ==
    /\ program = "processes" => Ir0(stores, BmsDev) # InitSoc
    /\ program = "monolith" =>
          \A k \in 1..Len(PcsUids) : Ir0(stores, PCS_TO_BMS[PcsUids[k]]) # InitSoc

\* C21: under a constant active power whose SOC change per tick is not zero
\* and below half a percent, the accumulator after k ticks is the initial SOC
\* plus k times that change (it is never taken from the quantized register
\* again), the SOC register holds the accumulator rounded to a whole percent,
\* and the register eventually leaves its initial value.
C21_SubUnitChangesAccumulate ==
    /\ []AccumulatorAfterTicks
    /\ <>SocRegisterChanged

\* C21 witness: three ticks of -0.2 percent each (+72 kW for 10 s) left the
\* accumulator at 49.4 and the SOC register at 49.
C21_Witness ==
    /\ program = "processes"
    /\ bmsCtl.ticks = 3
    /\ bmsCtl.power * bmsCtl.dt_s = 7200
    /\ bmsCtl.before = InitSoc * SocScale - 2 * 7200
    /\ bmsCtl.soc_float = InitSoc * SocScale - 3 * 7200
    /\ Ir0(stores, BmsDev) = 49

\* ------------------------------------------------------------------------
\* PMS tick (C22..C27)
\* ------------------------------------------------------------------------
\* HR0 of a device
Hr0(ss, dev) == ss[dev].h.values[0]

\* word is value / n encoded to the nearest tenth of a kW
IsShareOf(word, value_u16, n) ==
    LET off == n * decode_power_kw(word) - decode_power_kw(value_u16)
    IN  2 * off <= n /\ 2 * off >= -n

\* C22: in a PMS tick every PCS that is written gets the same word, the
\* encoding of the demand read from HR0 divided by the number of configured
\* PCS devices, whatever that number is; a demand of 1000 kW with 2 PCS gives
\* 500 kW to each.
C22_SetpointIsEqualShare ==
    /\ IsShareOf(pmsCtl.setpoint_u16, pmsCtl.demand_u16, Len(pmsCtl.pcs_ports))
    /\ \A pcs \in pmsCtl.written : Hr0(stores, pcs) = pmsCtl.setpoint_u16
    /\ pmsCtl.demand_u16 = 10000 /\ Len(pmsCtl.pcs_ports) = 2 => pmsCtl.setpoint_u16 = 5000

\* C22 witness: a demand of 1000 kW was read and both PCS hold 500 kW.
C22_Witness ==
    /\ pmsCtl.demand_u16 = 10000
    /\ pmsCtl.written = {"PCS1", "PCS2"}
    /\ Hr0(stores, "PCS1") = 5000
    /\ Hr0(stores, "PCS2") = 5000

\* C22 witness: with one PCS configured it holds the whole demand.
C22_WitnessOne ==
    /\ pmsCtl.demand_u16 = 10000
    /\ Len(pmsCtl.pcs_ports) = 1
    /\ pmsCtl.written = {"PCS1"}
    /\ Hr0(stores, "PCS1") = 10000

RECURSIVE SumOfSet(_, _)
\* the sum of f over the members of a set
SumOfSet(f, members) ==
    IF members = {} THEN 0
    ELSE LET x == CHOOSE y \in members : TRUE
         IN  f[x] + SumOfSet(f, members \ {x})

\* the PCS the for loop of the tick has gone through
PcsDone ==
    LET done == IF pmsCtl.pc = "poll" THEN pmsCtl.i - 1
                ELSE IF pmsCtl.pc = "idle" /\ pmsCtl.ticks = 0 THEN 0
                ELSE Len(pmsCtl.pcs_ports)
    IN  {pmsCtl.pcs_ports[k] : k \in 1..done}

\* a tick that polled peers has ended and no other has begun
PmsTickEnded == pmsCtl.pc = "idle" /\ pmsCtl.ticks > 0 /\ Len(pmsCtl.pcs_ports) > 0

\* the active powers and the capacities the peers hold, in tenths
PeerPower == [dev \in Devices |-> decode_power_kw(Ir0(stores, dev))]
PeerCapacity == [dev \in Devices |-> decode_capacity_kwh(stores[dev].i.values[2])]

\* C23: whatever peers fail in a PMS tick, every PCS that did not fail has
\* been written its setpoint and has had its active power read and added,
\* every paired BMS that did not fail has been polled, and the tick ends with
\* the total power and the total capacity of the peers that answered in IR0
\* and IR3 of the PMS.
C23_FailuresAreIsolated ==
    /\ \A pcs \in PcsDone :
          /\ pcs \notin pmsCtl.failed =>
                /\ pcs \in pmsCtl.written
                /\ pcs \in pmsCtl.added
                /\ Hr0(stores, pcs) = pmsCtl.setpoint_u16
          /\ (Pairing[pcs] \in pmsCtl.bms_ports /\ Pairing[pcs] \notin pmsCtl.failed) =>
                Pairing[pcs] \in pmsCtl.polled
    /\ PmsTickEnded =>
          /\ PmsIr(stores)[1] = encode_power_kw(SumOfSet(PeerPower, pmsCtl.added))
          /\ PmsIr(stores)[4] = encode_capacity_kwh(SumOfSet(PeerCapacity, pmsCtl.polled))

\* C23 witness: PCS1 and BMS1 failed, PCS2 was written and read, BMS2 was
\* polled, and the aggregates of PCS2 and BMS2 are in the registers.
C23_Witness ==
    /\ PmsTickEnded
    /\ pmsCtl.failed = {"PCS1", "BMS1"}
    /\ pmsCtl.written = {"PCS2"}
    /\ pmsCtl.added = {"PCS2"}
    /\ pmsCtl.polled = {"BMS2"}
    /\ Hr0(stores, "PCS2") = pmsCtl.setpoint_u16
    /\ PmsIr(stores)[1] = Ir0(stores, "PCS2")
    /\ PmsIr(stores)[1] # 0
    /\ PmsIr(stores)[4] = 1000

\* the SOC and the SOH the peers hold, in percent
PeerSoc == [dev \in Devices |-> decode_soc(Ir0(stores, dev))]
PeerSoh == [dev \in Devices |-> decode_soh(stores[dev].i.values[1])]

\* C24: a PMS tick in which at least one BMS answered leaves in IR1 and IR2
\* the means, rounded to a whole percent, of the SOC and the SOH of exactly
\* the BMS that answered, and in IR3 the sum of their capacities; a BMS that
\* failed is in neither the sums nor the divisor.
C24_MeansOverAnsweringBms ==
    (PmsTickEnded /\ pmsCtl.polled # {}) =>
        LET answered == Cardinality(pmsCtl.polled)
        IN  /\ pmsCtl.bms_count = answered
            /\ IsRoundedTo(PmsIr(stores)[2], SumOfSet(PeerSoc, pmsCtl.polled), answered)
            /\ IsRoundedTo(PmsIr(stores)[3], SumOfSet(PeerSoh, pmsCtl.polled), answered)
            /\ PmsIr(stores)[4] = encode_capacity_kwh(SumOfSet(PeerCapacity, pmsCtl.polled))

\* C24 witness: BMS1 (50 percent) failed and BMS2 (45 percent, 100 kWh)
\* answered; the PMS shows 45 percent, 100 percent and 100 kWh.
C24_Witness ==
    /\ PmsTickEnded
    /\ "BMS1" \in pmsCtl.failed
    /\ pmsCtl.polled = {"BMS2"}
    /\ Ir0(stores, "BMS1") = 50
    /\ PmsIr(stores)[2] = 45
    /\ PmsIr(stores)[3] = 100
    /\ PmsIr(stores)[4] = 1000

\* C24 witness: both BMS answered (50 and 45 percent, 100 kWh each).
C24_WitnessBoth ==
    /\ PmsTickEnded
    /\ pmsCtl.polled = {"BMS1", "BMS2"}
    /\ Ir0(stores, "BMS1") = 50
    /\ Ir0(stores, "BMS2") = 45
    /\ PmsIr(stores)[2] = 48
    /\ PmsIr(stores)[4] = 2000

\* the sum of the active powers the PCS returned in the tick, in tenths of kW
ReturnedPower == SumOfSet(PeerPower, pmsCtl.added)

\* C25 as stated: after a PMS tick IR0 decodes to the sum of the active
\* powers the PCS returned, for every combination of signed 16-bit values
\* they hold.
C25_TotalIsSumOfPowers ==
    PmsTickEnded => decode_power_kw(PmsIr(stores)[1]) = ReturnedPower

\* C25: after a PMS tick IR0 decodes to the sum of the active powers the PCS
\* returned, whenever that sum is within the signed 16-bit range of the
\* register.
C25_TotalIsSumWithinRange ==
    (PmsTickEnded /\ ReturnedPower \in -32768..32767) =>
        decode_power_kw(PmsIr(stores)[1]) = ReturnedPower

\* C25 witness: PCS1 returned -3000 kW and PCS2 500 kW; IR0 holds -2500 kW.
C25_Witness ==
    /\ PmsTickEnded
    /\ pmsCtl.added = {"PCS1", "PCS2"}
    /\ PeerPower["PCS1"] = -30000
    /\ PeerPower["PCS2"] = 5000
    /\ PmsIr(stores)[1] = 65536 - 25000

\* C25 witness: both PCS returned 500 kW; IR0 holds 1000 kW.
C25_WitnessExample ==
    /\ PmsTickEnded
    /\ pmsCtl.added = {"PCS1", "PCS2"}
    /\ PeerPower["PCS1"] = 5000
    /\ PeerPower["PCS2"] = 5000
    /\ PmsIr(stores)[1] = 10000

\* a PMS tick has ended and no other has begun
PmsAnyTickEnded == pmsCtl.pc = "idle" /\ pmsCtl.ticks > 0

\* IR1 and IR2 are as they were before the tick and IR3 is 0
MeansKeptCapacityZero ==
    /\ PmsIr(stores)[2] = pmsCtl.before[2]
    /\ PmsIr(stores)[3] = pmsCtl.before[3]
    /\ PmsIr(stores)[4] = 0

BatchSnapshots ==
    IF pmsCtl.before = <<>> THEN {PmsIr([dev \in {"PMS"} |-> run_server_context("PMS")])}
    ELSE {pmsCtl.before, pmsCtl.after}

\* the server thread of the PMS answers a read of IR0..IR3 in this step
ServesReadOfBatch ==
    /\ inb.kind = "read"
    /\ inb.dev = "PMS"
    /\ inb.function_code = 4
    /\ inb.address = 0
    /\ inb.count = 4
    /\ inb'.kind = "none"

\* C27: an inbound read of IR0..IR3 of the PMS returns the four words as they
\* all were before the batch of writes of a tick or as they all are after it,
\* at whatever point of the controller's tick it is served.
C27_ReadSeesWholeBatch ==
    [][ServesReadOfBatch => reply'.values \in BatchSnapshots']_vars

\* C27 witness: a read answered after the batch of a tick returned the four
\* new words (1000 kW, 48 percent, 100 percent, 200 kWh), none of the old.
C27_Witness ==
    /\ reply.function_code = 4
    /\ reply.values = <<10000, 48, 100, 2000>>
    /\ pmsCtl.before = <<0, 50, 100, 2000>>
    /\ pmsCtl.after = reply.values
    /\ PmsTickEnded

\* the read waits: the request is pending while the controller holds the lock
\* in the middle of its batch
ReadWaitsForBatch ==
    /\ inb.kind = "read"
    /\ pmsCtl.pc \in {"ir1", "ir2", "ir3"}
    /\ lock["PMS"].owner = "controller"
    /\ ~CanAcquire(lock["PMS"], "server")

\* ------------------------------------------------------------------------
\* The lock of a device (C28)
\* ------------------------------------------------------------------------
\* the controller of the PMS is inside the with block of its batch
InBatch == pmsCtl.pc \in {"ir0", "ir1", "ir2", "ir3"}

\* the lock is held by the controller exactly while it is inside its batch,
\* once, and by nobody otherwise
LockFollowsBatch ==
    /\ InBatch => lock["PMS"] = acquire(FreeLock, "controller")
    /\ ~InBatch => lock["PMS"] = FreeLock

\* the controller inside its batch can take the lock again for a setValues
NeverBlocksOnItself == InBatch => CanAcquire(lock["PMS"], "controller")

\* whenever a thread waits for the lock, some thread can take a step
NoLockDeadlock ==
    (inb.kind # "none" /\ ~CanAcquire(lock["PMS"], "server")) =>
        CanAcquire(lock["PMS"], "controller")

\* C28: the server thread and the controller of a device serialize on one
\* reentrant lock: the controller holds it exactly during its batch and can
\* take it again for each guarded access, no state is a deadlock, a request
\* that waits for the lock is eventually served, and a controller that waits
\* for the lock eventually enters and leaves its batch.
C28_LockIsReentrantAndLive ==
    /\ [](LockFollowsBatch /\ NeverBlocksOnItself /\ NoLockDeadlock)
    /\ (inb.kind # "none") ~> (inb.kind = "none")
    /\ (pmsCtl.pc = "batch") ~> InBatch
    /\ InBatch ~> (pmsCtl.pc = "idle")

\* C28 witness: the controller holds the lock in the middle of its batch,
\* about to make its last guarded write, while a request to the server waits
\* for the lock.
C28_Witness ==
    /\ pmsCtl.pc = "ir3"
    /\ pmsCtl.bms_count > 0
    /\ lock["PMS"].owner = "controller"
    /\ inb.kind = "write"
    /\ ~CanAcquire(lock["PMS"], "server")

\* ------------------------------------------------------------------------
\* The controller loops (C29)
\* ------------------------------------------------------------------------
\* a loop is at its head after a tick in which a request to a peer failed
PmsFailedTick == pmsCtl.pc = "idle" /\ pmsCtl.failed # {}
PcsFailedTick == pcsCtl.pc = "idle" /\ pcsCtl.ticks > 0 /\ pcsCtl.failed
BmsFailedTick == bmsCtl.ticks > 0 /\ bmsCtl.failed

\* ticks are left to run
TicksLeft == AllTicks < MaxTicks

\* a loop that is at its head after a failed tick can begin its next tick
FailedLoopCanTick ==
    /\ (PmsFailedTick /\ TicksLeft) => ENABLED PmsLoopStep
    /\ (PcsFailedTick /\ TicksLeft) => ENABLED PcsLoopStep
    /\ (BmsFailedTick /\ TicksLeft) => ENABLED BmsLoopStep

\* C29: no controller loop stops because of a peer: after a tick in which a
\* request to a peer failed, timed out or raised, the loop of the PMS, of the
\* PCS and of the BMS is able to begin its next tick and does run it (as long
\* as ticks are left to run), and every tick that has begun comes to its end.
C29_LoopsSurvivePeerFailures ==
    /\ []FailedLoopCanTick
    /\ \A k \in 1..(MaxTicks - 1) :
          /\ (PmsFailedTick /\ pmsCtl.ticks = k) ~> (pmsCtl.ticks > k \/ ~TicksLeft)
          /\ (PcsFailedTick /\ pcsCtl.ticks = k) ~> (pcsCtl.ticks > k \/ ~TicksLeft)
          /\ (BmsFailedTick /\ bmsCtl.ticks = k) ~> (bmsCtl.ticks > k \/ ~TicksLeft)
    /\ (pmsCtl.pc # "idle") ~> (pmsCtl.pc = "idle")
    /\ (pcsCtl.pc # "idle") ~> (pcsCtl.pc = "idle")

\* C29 witness: the PCS loop has begun its second tick after a first tick in
\* which the read of the BMS failed, and the PMS loop is polling again after
\* a tick of its own.
C29_Witness ==
    /\ pcsCtl.pc = "read_soc"
    /\ pcsCtl.ticks = 1
    /\ pcsCtl.failed
    /\ pmsCtl.ticks = 1
    /\ pmsCtl.pc = "poll"

\* ------------------------------------------------------------------------
\* Requests in flight (C30)
\* ------------------------------------------------------------------------
\* the controller of a device has a request to a peer in flight
InFlight ==
    [dev \in {"PMS", PcsDev, BmsDev} |->
        IF dev = "PMS" THEN pmsCtl.pc = "poll"
        ELSE IF dev = PcsDev THEN pcsCtl.pc = "read_soc"
        ELSE bmsCall.sent]

\* a controller with a request in flight does not hold the lock of its device
LockFreeDuringCall ==
    \A dev \in DOMAIN InFlight :
        InFlight[dev] => lock[LockOf(dev)].owner # "controller"

\* a request of a client to a device whose controller has a request in flight
\* can be answered at once
ServedDuringCall ==
    (inb.kind # "none" /\ InFlight[inb.dev]) => ENABLED PmsServerStep

\* PCS and BMS polling each other: the server of each can answer the other
NoCircularWait ==
    (InFlight[PcsDev] /\ InFlight[BmsDev]) =>
        /\ CanAcquire(lock[LockOf(PcsDev)], "server")
        /\ CanAcquire(lock[LockOf(BmsDev)], "server")

\* C30: while a controller's request to a peer is in flight the controller
\* does not hold the lock of its device, so a client's request to that device
\* can be answered meanwhile, and when the PCS and the BMS have requests to
\* each other in flight both can be answered: there is no circular wait.
C30_NoLockHeldDuringCall ==
    /\ LockFreeDuringCall
    /\ ServedDuringCall
    /\ NoCircularWait

\* C30 witness: the PCS and the BMS have requests to each other in flight,
\* the PMS is polling too, and a client's request to the PCS waits to be
\* served.
C30_Witness ==
    /\ InFlight[PcsDev]
    /\ InFlight[BmsDev]
    /\ InFlight["PMS"]
    /\ inb.kind = "read"
    /\ inb.dev = PcsDev
    /\ CanAcquire(lock[LockOf(PcsDev)], "server")

\* ------------------------------------------------------------------------
\* What a tick changes (C31)
\* ------------------------------------------------------------------------
\* the step changes no register but those of the set allowed, given as
\* <<device, table, address>>, and no table's kind or size
StoresSameExcept(allowed) ==
    \A dev \in Devices, table \in {"d", "c", "h", "i"} :
        /\ stores'[dev][table].kind = stores[dev][table].kind
        /\ DOMAIN stores'[dev][table].values = DOMAIN stores[dev][table].values
        /\ \A a \in DOMAIN stores[dev][table].values :
              stores'[dev][table].values[a] # stores[dev][table].values[a] =>
                  <<dev, table, a>> \in allowed

\* the registers a PMS tick may change: its IR0..IR3 and HR0 of its PCS
PmsTickRegisters ==
    {<<"PMS", "i", a>> : a \in 0..3}
    \cup {<<pmsCtl.pcs_ports[k], "h", 0>> : k \in 1..Len(pmsCtl.pcs_ports)}

\* C31: a step of the PCS controller changes no register but IR0 of that
\* PCS, a step of the BMS controller none but IR0 of that BMS, and a step of
\* the PMS controller none but IR0..IR3 of the PMS and HR0 of its PCS; so no
\* controller changes another register of any device nor a holding register
\* of its own.
C31_TicksChangeOwnRegistersOnly ==
    [][ /\ pcsCtl' # pcsCtl => StoresSameExcept({<<PcsDev, "i", 0>>})
        /\ bmsCtl' # bmsCtl => StoresSameExcept({<<BmsDev, "i", 0>>})
        /\ pmsCtl' # pmsCtl => StoresSameExcept(PmsTickRegisters) ]_vars

\* C31 witness: the three controllers have ticked: both PCS hold the setpoint
\* of 500 kW in HR0, PCS1 reports it in IR0, the SOC of BMS1 has left 50
\* percent, the PMS shows a total; HR0 of the PMS and the registers of BMS2
\* are as they were.
C31_Witness ==
    /\ PmsTickEnded
    /\ Hr0(stores, "PCS1") = 5000
    /\ Hr0(stores, "PCS2") = 5000
    /\ Ir0(stores, "PCS1") = 5000
    /\ Ir0(stores, "BMS1") < 50
    /\ PmsIr(stores)[1] = 5000
    /\ Hr0(stores, "PMS") = 10000
    /\ stores["BMS2"] = run_server_context("BMS2")

\* ------------------------------------------------------------------------
\* C32..C34: the scaled codecs
\* ------------------------------------------------------------------------
\* a power encoder was given a value outside -32768..32767 tenths of a kW, and
\* the call is over
PowerEncodedOutOfRange ==
    /\ codec.quantity = "power"
    /\ codec.first = "encode"
    /\ codec.steps >= 1
    /\ codec.input \notin -32768..32767

\* C32: encoding a power whose scaled value lies outside -32768..32767 fails
\* the operation and writes no register: no power encoder returns a word for
\* such a value.
C32_OutOfRangePowerFails ==
    PowerEncodedOutOfRange =>
        /\ codec.raised
        /\ stores = [dev \in {"PMS"} |-> run_server_context(dev)]

\* an SOC, SOH or capacity encoder was given a value, and the call is over
ClampedEncoded ==
    /\ codec.quantity \in {"soc", "soh", "capacity"}
    /\ codec.first = "encode"
    /\ codec.steps >= 1

\* the largest word of the quantity encoded: 100 percent, 6553.5 kWh
MaxWord == IF codec.quantity = "capacity" THEN 65535 ELSE 100

\* the value of the largest word, in the unit of the values encoded
MaxValue == IF codec.quantity = "capacity" THEN 65535 ELSE 1000

\* C33: an SOC, SOH or capacity outside its range is encoded as the word of
\* the nearest bound (0 below the range; 100 percent, 6553.5 kWh above it),
\* and the word is monotone in the value: the next larger value never gets a
\* smaller word, so no value wraps modulo 2^16.
C33_ClampedAndMonotone ==
    ClampedEncoded =>
        /\ ~codec.raised
        /\ codec.mid \in 0..MaxWord
        /\ codec.input <= 0 => codec.mid = 0
        /\ codec.input >= MaxValue => codec.mid = MaxWord
        /\ codec_encode(codec.module, codec.quantity, codec.input + 1).word >= codec.mid

\* an encoder and then the decoder were called: the value came back as out
EncodedAndDecoded == codec.first = "encode" /\ codec.steps = 2

\* the decoder and then an encoder were called: the word came back as out
DecodedAndEncoded == codec.first = "decode" /\ codec.steps = 2

\* the values the claim is about: a power a register can hold, a whole
\* percentage from 0 to 100, a capacity a register can hold
RoundTripValue ==
    CASE codec.quantity = "power" -> codec.input \in -32768..32767
      [] codec.quantity \in {"soc", "soh"} ->
           codec.input \in 0..1000 /\ codec.input % 10 = 0
      [] codec.quantity = "capacity" -> codec.input \in 0..65535
      [] OTHER -> FALSE

\* C34: decoding the encoded word gives the raw value back, for every power
\* in -32768..32767, every whole SOC and SOH in 0..100 and every capacity in
\* 0..65535; encoding the decoded power gives the word back, for every
\* 16-bit word.
C34_CodecRoundTrip ==
    /\ (EncodedAndDecoded /\ RoundTripValue) => codec.out = codec.input
    /\ (DecodedAndEncoded /\ codec.quantity = "power") =>
          ~codec.raised /\ codec.out = codec.input

\* C34 witness: -0.1 kW was encoded as 65535 by DeviceModel and decoded as
\* -0.1 kW.
C34_Witness ==
    /\ EncodedAndDecoded
    /\ codec.module = "DeviceModel"
    /\ codec.quantity = "power"
    /\ codec.input = -1
    /\ codec.mid = 65535
    /\ codec.out = -1

\* C34 witness: the word 32768 was decoded as -3276.8 kW by tcp_context and
\* encoded as 32768.
C34_WitnessWord ==
    /\ DecodedAndEncoded
    /\ codec.module = "tcp_context"
    /\ codec.input = 32768
    /\ codec.mid = -32768
    /\ codec.out = 32768

\* ------------------------------------------------------------------------
\* C35: input registers are read-only to clients
\* ------------------------------------------------------------------------
\* the step leaves table of dev as it was
TableKept(dev, table) == stores'[dev][table] = stores[dev][table]

\* C35: no inbound request of any function code changes an input register;
\* an input register changes only in a step of the device's own controller
\* that writes it; a write-single-register request changes nothing but the
\* holding registers of the device it is sent to.
C35_InputRegistersReadOnly ==
    [][ /\ \A dev \in DOMAIN stores, req \in ServedRequests :
              (/\ reply'.dev = dev
               /\ reply'.function_code = req.function_code
               /\ reply'.address = req.address
               /\ ServeRequest(dev, req)) =>
                  /\ \A d \in DOMAIN stores : TableKept(d, "i")
                  /\ req.function_code = 6 =>
                        \A d \in DOMAIN stores, table \in {"d", "c", "h", "i"} :
                            TableKept(d, table) \/ (d = dev /\ table = "h")
        /\ ~TableKept(PcsDev, "i") => \E reached \in BOOLEAN : PcsFinishTick(reached)
        /\ ~TableKept(BmsDev, "i") =>
              \E reached \in BOOLEAN : BmsTick(reached, LoopInterval.dt_s) ]_vars

\* C35 witness: a client has written 1800 kW to HR0 of the PCS with function
\* code 6 and then to HR9; the input registers hold what the controllers
\* wrote, 1800 kW and an SOC of 45.
C35_Witness ==
    /\ reply.dev = PcsDev
    /\ reply.function_code = 6
    /\ reply.address = 9
    /\ reply.exc = 0
    /\ reply.before # stores[PcsDev].h
    /\ Hr0(stores, PcsDev) = 18000
    /\ Ir0(stores, PcsDev) = 18000
    /\ Ir0(stores, BmsDev) = 45

\* ------------------------------------------------------------------------
\* C36: the percentages
\* ------------------------------------------------------------------------
\* C36: the SOC register of the BMS (IR0) and the SOC and SOH averages of the
\* PMS (IR1, IR2) hold a word in 0..100 in every reachable state, whatever
\* the PCS reports and whatever words the polled BMS returns.
C36_PercentagesInRange ==
    /\ Ir0(stores, BmsDev) \in 0..100
    /\ PmsIr(stores)[2] \in 0..100
    /\ PmsIr(stores)[3] \in 0..100

\* C36 witness: the polled BMS returned 65535 for its SOC and its SOH, and the
\* PMS wrote 100 and 100; the PCS reported 3276.7 kW, and the BMS, at 50 a
\* tick before, wrote 0.
C36_Witness ==
    /\ PmsTickEnded
    /\ pmsCtl.polled = {"BMS2"}
    /\ Ir0(stores, "BMS2") = 65535
    /\ stores["BMS2"].i.values[1] = 65535
    /\ PmsIr(stores)[2] = 100
    /\ PmsIr(stores)[3] = 100
    /\ Ir0(stores, PcsDev) = 32767
    /\ bmsCtl.ticks > 0
    /\ Ir0(stores, BmsDev) = 0

\* ------------------------------------------------------------------------
\* C37: the bank of the connection handler's device
\* ------------------------------------------------------------------------
\* every register of the bank holds a 16-bit word, and the bank has the size
\* it was made with
BankWellFormed ==
    /\ DOMAIN holding = 0..(HoldingSize - 1)
    /\ \A a \in DOMAIN holding : holding[a] \in 0..65535

\* the step is an iteration of the background updater: it changes no
\* register but register 1, which goes up by one modulo 65536
BackgroundStepAddsOne ==
    /\ Changed(holding, holding') \subseteq {1}
    /\ holding'[1] = (holding[1] + 1) % 65536

\* the step is a handler's: a register that changes is the one addressed by
\* the write-single-register request the handler of a connection has just
\* served
ClientStepWritesAddressed ==
    \A a \in Changed(holding, holding') :
        \E c \in Conns :
            /\ last'[c] # last[c]
            /\ last'[c].req.ok
            /\ last'[c].req.function_code = 6
            /\ last'[c].req.address = a
            /\ Changed(holding, holding') = {a}

\* C37: with writes from several connections and background updates in any
\* order, every holding register holds a value in 0..65535 and the size of
\* the bank never changes; a background update changes register 1 only, by +1
\* modulo 65536; a client write changes the addressed register only.
C37_BankIntegrity ==
    /\ []BankWellFormed
    /\ [][ IF bgSteps' # bgSteps THEN BackgroundStepAddsOne
           ELSE ClientStepWritesAddressed ]_vars

\* C37 witness: the second connection wrote 65535 to register 1 and the
\* background updater took it to 0; the first connection wrote 9 to the last
\* register.
C37_Witness ==
    /\ last["c2"].kind = "served"
    /\ last["c2"].delta = {1}
    /\ bgSteps = 1
    /\ holding[1] = 0
    /\ holding[HoldingSize - 1] = 9

\* ------------------------------------------------------------------------
\* C38, C40: the signs of the closed loop
\* ------------------------------------------------------------------------
\* the step is an iteration of the BMS loop
BmsTicked == bmsCtl'.ticks # bmsCtl.ticks

\* the active power the PCS holds when the BMS reads it, in tenths of a kW
PcsPowerNow == decode_power_kw(Ir0(stores, PcsDev))

\* C38: in a BMS tick where the active power read from the PCS is positive
\* the SOC register does not increase, where it is negative the register does
\* not decrease, and where it is zero or the read fails the register is
\* unchanged.
C38_SocFollowsPowerSign ==
    [][ BmsTicked =>
          IF bmsCtl'.failed \/ PcsPowerNow = 0
          THEN Ir0(stores', BmsDev) = Ir0(stores, BmsDev)
          ELSE IF PcsPowerNow > 0
          THEN Ir0(stores', BmsDev) <= Ir0(stores, BmsDev)
          ELSE Ir0(stores', BmsDev) >= Ir0(stores, BmsDev) ]_vars

\* C38 witness: the BMS read 180 kW twice, 10 s apart; the SOC went from 50 to
\* 49.5, halfway between two words, and then to 49, written as 49.
C38_Witness ==
    /\ bmsCtl.ticks = 2
    /\ ~bmsCtl.failed
    /\ bmsCtl.power = 1800
    /\ bmsCtl.dt_s = 10
    /\ 2 * bmsCtl.before = 99 * SocScale
    /\ bmsCtl.soc_float = 49 * SocScale
    /\ Ir0(stores, BmsDev) = 49

\* the step ends a PCS tick that read a positive setpoint while the SOC
\* register of the paired BMS holds 0
PcsTickedOnEmptyBattery ==
    /\ pcsCtl'.ticks # pcsCtl.ticks
    /\ decode_power_kw(pcsCtl.setpoint_u16) > 0
    /\ Ir0(stores, BmsDev) = 0

\* C40 as stated: in every PCS tick with a positive setpoint in which the SOC
\* register of the paired BMS holds 0, the PCS writes an active power of 0,
\* also when its read of the SOC fails or returns an error.
C40_NeverDischargesEmptyBattery ==
    [][ PcsTickedOnEmptyBattery => Ir0(stores', PcsDev) = 0 ]_vars

\* C40: in every PCS tick with a positive setpoint in which the SOC register
\* of the paired BMS holds 0 and the read of the SOC goes through, the PCS
\* writes an active power of 0; when the read fails or returns an error, the
\* PCS takes the SOC for 50 and writes the setpoint.
C40_NoDischargeWhenSocIsRead ==
    [][ PcsTickedOnEmptyBattery =>
          IF pcsCtl'.failed
          THEN Ir0(stores', PcsDev) = pcsCtl.setpoint_u16
          ELSE Ir0(stores', PcsDev) = 0 ]_vars

\* C40 witness: the BMS went to an SOC of 0 under 1800 kW; the PCS then read
\* the SOC, with the setpoint still at 1800 kW, and wrote 0.
C40_Witness ==
    /\ Ir0(stores, BmsDev) = 0
    /\ bmsCtl.ticks = 1
    /\ bmsCtl.power = 18000
    /\ pcsCtl.ticks = 2
    /\ pcsCtl.pc = "idle"
    /\ pcsCtl.setpoint_u16 = 18000
    /\ ~pcsCtl.failed
    /\ pcsCtl.soc = 0
    /\ Ir0(stores, PcsDev) = 0

\* ------------------------------------------------------------------------
\* C39: the closed loop settles
\* ------------------------------------------------------------------------
\* the setpoint in HR0 of the PCS, in tenths of a kW
HeldSetpoint == decode_power_kw(Hr0(stores, PcsDev))

\* the battery is empty (full) and the PCS has stopped
SettledEmpty == Ir0(stores, BmsDev) = 0 /\ Ir0(stores, PcsDev) = 0
SettledFull == Ir0(stores, BmsDev) = 100 /\ Ir0(stores, PcsDev) = 0

\* C39: with the setpoint of the PCS held at a positive value, both devices
\* reachable and both controllers ticking, the SOC register of the BMS
\* eventually reaches 0 and the active power of the PCS eventually becomes 0,
\* and from then on both stay; with a negative setpoint the SOC ends at 100
\* and the active power at 0.
C39_ClosedLoopSettles ==
    /\ HeldSetpoint > 0 => <>[]SettledEmpty
    /\ HeldSetpoint < 0 => <>[]SettledFull

\* C39 witness: with the setpoint at 180 kW the SOC came down to 0, the PCS
\* read it and wrote 0 kW, and the BMS read 0 kW from the PCS.
C39_Witness ==
    /\ HeldSetpoint = 1800
    /\ bmsCtl.dt_s = 100
    /\ SettledEmpty
    /\ pcsCtl.pc = "idle"
    /\ pcsCtl.soc = 0
    /\ bmsCtl.power = 0
    /\ bmsCtl.soc_float = bmsCtl.before

====
